---- MODULE Spec2Model ----
(***************************************************************************)
(* A model of src/main.py (class FourierSynthesizer): the tune scheduler,  *)
(* the key gestures, the settings loads, the audio callback, the trigger   *)
(* detector and the note quantizer.                                        *)
(*                                                                         *)
(* Numbers.  Python floats are modelled in fixed point:                    *)
(*   - amplitudes, DC offset, volume and samples in units of 1/Unit;       *)
(*   - the ratio 2 ** (n / 12) in thousandths (ScalingFactor);             *)
(*   - frequencies in hundredths of a hertz;                               *)
(*   - phases in quarter turns (TwoPi = 4), where the four closed-form     *)
(*     waveforms take exact values;                                        *)
(*   - note durations and recording times in hundredths of a second.       *)
(* None (Python) is the string "None" for names and the tagged value JNull *)
(* for JSON values.                                                        *)
(***************************************************************************)
EXTENDS Integers, Sequences, FiniteSets, TLC

\* ------------------------------------------------------------------ bounds

\* self.num_oscillators: the code is generic in it (set once in __init__).
num_oscillators == 2
\* Most single-shot note-end timers pending at once.
MaxTimers == 2
\* Most keys of the on-screen keyboard held down at once.
MaxHeld == 2
\* Most frames the audio device asks for in one callback.
MaxFrames == 2
\* maxlen of cumulative_buffer, in samples.
CumulativeMaxLen == 2

\* --------------------------------------------------------------- constants

SAMPLE_RATE == 44100
\* The fixed-point image of 1.0 (amplitude, volume, DC and sample range).
Unit == 8
\* The period 2*pi of a phase accumulator, in quarter turns.
TwoPi == 4
\* maxlen of trigger_buffer: int((BUFFER_DURATION * 2) * SAMPLE_RATE).
TriggerMaxLen == 2 * CumulativeMaxLen

KEY_ORDER ==
  << "G3", "G#3/Ab3", "A3", "A#3/Bb3", "B3",
     "C4", "C#4/Db4", "D4", "D#4/Eb4", "E4", "F4", "F#4/Gb4", "G4",
     "G#4/Ab4", "A4", "A#4/Bb4", "B4",
     "C5", "C#5/Db5", "D5", "D#5/Eb5", "E5", "F5", "F#5/Gb5", "G5" >>

WAVEFORM_OPTIONS == << "Sine", "Square", "Sawtooth", "Triangle" >>

KeyNames == { KEY_ORDER[i] : i \in 1..Len(KEY_ORDER) }

\* KEY_ORDER.index(key): the 0-based position of a key of the key space.
KeyIndex(key) == (CHOOSE i \in 1..Len(KEY_ORDER) : KEY_ORDER[i] = key) - 1

\* 2 ** (n / 12) in thousandths, for -24 <= n <= 24.
Pow2Table ==
  << 250, 265, 281, 297, 315, 334, 354, 375, 397, 420, 445, 472,
     500, 530, 561, 595, 630, 667, 707, 749, 794, 841, 891, 944,
     1000, 1059, 1122, 1189, 1260, 1335, 1414, 1498, 1587, 1682, 1782, 1888,
     2000, 2119, 2245, 2378, 2520, 2670, 2828, 2997, 3175, 3364, 3564, 3775,
     4000 >>

ScalingFactor(n) == Pow2Table[n + 25]

\* JSON values as the handlers see them.
JNull == [t |-> "null", v |-> 0]
JInt(n) == [t |-> "int", v |-> n]
JNum(x) == [t |-> "float", v |-> x]
JStr == [t |-> "str", v |-> 0]
IsNumber(j) == j.t \in {"int", "float"}

None == "None"

Zeros == [i \in 1..num_oscillators |-> 0]

Min(a, b) == IF a <= b THEN a ELSE b
Max(a, b) == IF a >= b THEN a ELSE b
Abs(x) == IF x < 0 THEN -x ELSE x

\* ------------------------------------------------------------------- state

VARIABLES
  \* tune scheduler
  current_tune,            \* sequence of [name, duration]
  current_note_index,
  is_playing_tune,
  is_paused,
  pauseResumeEnabled,      \* pauseResumeTuneButton.isEnabled()
  timers,                  \* pending QTimer.singleShot(ms, endCurrentNote) callbacks
  \* active note (shared with the audio thread)
  freq_multiplier_step,
  freq_multiplier,
  currentKey,
  phases,
  held,                    \* keyboard buttons currently down
  \* oscillator and mix parameters (shared with the audio thread)
  amp_values,
  freq_values,
  waveform_types,
  dc_value,
  volume,
  trigger_threshold,
  trigger_edge,
  key_shift_semitones,
  \* the widgets the handlers read and write
  controls,
  signalsBlocked,          \* the widget groups left with blockSignals(True)
  \* audio thread
  cb,                      \* the callback in flight: its entry snapshot, or Idle
  outdata,
  cumulative_buffer,
  trigger_buffer,
  \* display
  trigger_index,           \* << >> before detectTrigger ran, then << what it returned >>
  last_trigger_time,       \* << >> for -np.inf, else << milliseconds >>
  plot,                    \* what updatePlot drew last: plotCurve.setData
  plot_clock,              \* QDateTime.currentDateTime().toMSecsSinceEpoch()
  \* recording
  clock,                   \* time.time()
  is_recording,
  recording_start_time,
  recorded_notes,
  current_recording_note,
  quantization,
  saved_tune,              \* the tune file saveRecording wrote last
  \* settings files
  saved_settings,          \* the settings file saveAllSettings wrote last
  load_failed,             \* the last Load dialog ended in QMessageBox.critical
  \* audio output
  device,                  \* self.device, an index of sd.query_devices()
  stream,                  \* self.stream: << >> for None, else << [device, active] >>
  closed,                  \* closeEvent has accepted the close of the window
  \* the lock shared by the GUI thread and the audio thread
  lock,                    \* self.lock: "None" when free, else the thread holding it
  running,                 \* per thread: the operation it is in and its position there
  access,                  \* the last read or write of self.* fields and whether locked
  \* history of the playback since the last Play
  run,
  index_at_pause

schedVars == << current_tune, current_note_index, is_playing_tune, is_paused,
                pauseResumeEnabled, timers, run, index_at_pause >>
noteVars == << freq_multiplier_step, freq_multiplier, currentKey, phases >>
paramVars == << amp_values, freq_values, waveform_types, dc_value, volume,
                trigger_threshold, trigger_edge, key_shift_semitones >>
widgetVars == << controls, signalsBlocked >>
audioVars == << cb, outdata, cumulative_buffer, trigger_buffer >>
recVars == << clock, is_recording, recording_start_time, recorded_notes,
              current_recording_note, quantization, saved_tune >>

displayVars == << trigger_index, last_trigger_time, plot, plot_clock >>
fileVars == << saved_settings, load_failed >>
deviceVars == << device, stream, closed >>
lockVars == << lock, running, access >>

vars == << schedVars, noteVars, held, paramVars, widgetVars, audioVars,
           displayVars, recVars, fileVars,
           deviceVars, lockVars >>

\* ------------------------------------------------------------ construction

WHOLE == 200
HALF == 100
QUARTER == 50
\* freq_spinbox.setValue(261.63), in hundredths of a hertz.
FreqDefault == 26163
\* timeScaleSpinBox.setValue(0.05), in units of 0.00001 s.
TimeScaleDefault == 5000
\* TRIGGER_HOLDOFF_DEFAULT = 100.0 ms, in tenths of a millisecond.
TRIGGER_HOLDOFF_DEFAULT == 1000
\* VOLUME_DEFAULT = 1.0, as the slider shows it: int(self.volume * 100).
VolumeSliderDefault == 100

Idle == [busy |-> FALSE]

\* stopped: Stop has ended a playback and Play was not pressed since.
NoRun ==
  [clean |-> FALSE, early |-> FALSE, done |-> FALSE, trace |-> << >>,
   stopped |-> FALSE]

\* The widgets as initUI builds them.
InitControls ==
  [ amplitudeControls |-> Zeros,
    frequencyControls |-> [i \in 1..num_oscillators |-> FreqDefault],
    waveformControls |-> [i \in 1..num_oscillators |-> "Sine"],
    dcSpinBox |-> 0,
    timeScaleSpinBox |-> TimeScaleDefault,
    triggerThresholdSpinBox |-> 0,
    triggerEdgeComboBox |-> "Rising",
    triggerHoldoffSpinBox |-> TRIGGER_HOLDOFF_DEFAULT,
    volumeSlider |-> VolumeSliderDefault,
    keyShiftSpinBox |-> 0 ]

\* The scheduler attributes of __init__, lines 61-65, and the disabled
\* Pause/Resume button of initSaveLoadButtons.
InitScheduler ==
  /\ current_tune = << >>
  /\ current_note_index = 0
  /\ is_playing_tune = FALSE
  /\ is_paused = FALSE
  /\ pauseResumeEnabled = FALSE
  /\ timers = << >>
  /\ run = NoRun
  /\ index_at_pause = 0

\* No note sounds and no button is down.
InitNote ==
  /\ freq_multiplier_step = JNull
  /\ freq_multiplier = 0
  /\ currentKey = None
  /\ phases = Zeros
  /\ held = {}

\* The parameters as updateParameters and the trigger and transposition
\* handlers read them from the widgets c.
InitParameters(c) ==
  /\ amp_values = c.amplitudeControls
  /\ freq_values = c.frequencyControls
  /\ waveform_types = c.waveformControls
  /\ dc_value = c.dcSpinBox
  /\ trigger_threshold = c.triggerThresholdSpinBox
  /\ trigger_edge = c.triggerEdgeComboBox
  /\ key_shift_semitones = c.keyShiftSpinBox
  /\ controls = c
  /\ signalsBlocked = {}

\* The stream has run no callback yet.
InitStream ==
  /\ cb = Idle
  /\ outdata = << >>
  /\ cumulative_buffer = << >>

\* Nothing has been drawn: updatePlot has not run, last_trigger_time is
\* -np.inf (line 58).
NoPlot == [shown |-> FALSE, triggered |-> FALSE, waveform |-> << >>]

InitDisplay ==
  /\ trigger_index = << >>
  /\ last_trigger_time = << >>
  /\ plot = NoPlot
  /\ plot_clock = 0

\* The recording attributes of __init__, lines 76-80.
\* The output devices getOutputDeviceNames found, by their index.
OutputDevices == << 0, 1 >>

\* initOutputDeviceSelection picks the first device (line 467) and initAudio
\* opens and starts a stream on it.
InitDevice ==
  /\ device = OutputDevices[1]
  /\ stream = << [device |-> OutputDevices[1], active |-> TRUE] >>
  /\ closed = FALSE

InitFiles ==
  /\ saved_settings = << >>
  /\ load_failed = FALSE

\* self.lock (line 46) starts free. The Qt main thread and the PortAudio
\* thread are between operations.
Threads == { "gui", "audio" }

\* A thread between two operations.
Resting == [op |-> "None", pc |-> 1, acquired |-> 0]
NoAccess == [thread |-> "None", op |-> "None", kind |-> "None", fields |-> { },
             held |-> FALSE]

InitLock ==
  /\ lock = "None"
  /\ running = [t \in Threads |-> Resting]
  /\ access = NoAccess

InitRecording ==
  /\ clock = 0
  /\ is_recording = FALSE
  /\ recording_start_time = << >>
  /\ recorded_notes = << >>
  /\ current_recording_note = << >>
  /\ quantization = QUARTER
  /\ saved_tune = << >>

\* The state __init__ leaves: the attributes it sets, then initUI (which
\* ends with updateParameters), initAudio and initPlotTimer.
Init ==
  /\ InitScheduler
  /\ InitNote
  /\ InitParameters(InitControls)
  /\ volume = Unit
  /\ InitStream
  /\ trigger_buffer = << >>
  /\ InitDisplay
  /\ InitFiles
  /\ InitDevice
  /\ InitLock
  /\ InitRecording

\* ----------------------------------------------------------- tune scheduler

\* The tune files the performer may pick in the Load Tune dialog.
TuneFiles ==
  { [has_notes |-> TRUE,
     notes |-> << [name |-> "C4", duration |-> 20],
                  [name |-> "E4", duration |-> 30] >>],
    [has_notes |-> TRUE,
     notes |-> << [name |-> "H2", duration |-> 20],
                  [name |-> "G5", duration |-> 50] >>],
    [has_notes |-> TRUE, notes |-> << [name |-> "X", duration |-> 20] >>],
    [has_notes |-> TRUE, notes |-> << >>],
    [has_notes |-> FALSE, notes |-> << >>] }

\* A gesture, a Pause, a Stop or a load ends the undisturbed run.
Disturbed(r) == [r EXCEPT !.clean = FALSE, !.trace = << >>]

\* One more write of freq_multiplier by the scheduler in an undisturbed run.
Logged(r, m) ==
  IF r.clean /\ ~r.done THEN [r EXCEPT !.trace = Append(@, m)] ELSE r

\* loadTune without the test for an empty or missing notes list.
LoadTuneAcceptingEmpty(file) ==
  LET notes == IF file.has_notes THEN file.notes ELSE << >>
  IN /\ load_failed' = FALSE
     /\ current_tune' = notes
     /\ current_note_index' = 0
     /\ is_playing_tune' = FALSE
     /\ run' = Disturbed(run)
     /\ UNCHANGED << is_paused, pauseResumeEnabled, timers, index_at_pause,
                     noteVars, held, paramVars, widgetVars, audioVars,
                     displayVars, recVars, saved_settings, deviceVars, lockVars >>

\* loadTune, lines 1102-1115: tune.get('notes', []) and the three assignments.
LoadTune(file) ==
  LET notes == IF file.has_notes THEN file.notes ELSE << >>
  IN /\ load_failed' = (notes = << >>)
     /\ IF notes = << >>
        THEN UNCHANGED << current_tune, current_note_index, is_playing_tune, run >>
        ELSE /\ current_tune' = notes
             /\ current_note_index' = 0
             /\ is_playing_tune' = FALSE
             /\ run' = Disturbed(run)
     /\ UNCHANGED << is_paused, pauseResumeEnabled, timers, index_at_pause,
                     noteVars, held, paramVars, widgetVars, audioVars,
                     displayVars, recVars, saved_settings, deviceVars, lockVars >>

\* The recursion of playNextNote over invalid names, lines 1159-1163: the
\* first index from i on that is past the end or holds a key of KEY_ORDER.
RECURSIVE SkipInvalid(_, _)
SkipInvalid(tune, i) ==
  IF i >= Len(tune) THEN i
  ELSE IF tune[i + 1].name \notin KeyNames THEN SkipInvalid(tune, i + 1)
  ELSE i

\* int(duration * 1000): the single-shot interval in milliseconds.
TimerInterval(duration) == duration * 10

\* tune_timer.singleShot(ms, self.endCurrentNote), line 1197: QTimer.singleShot
\* is static; it starts a timer of its own, which self.tune_timer does not own.
\* Qt starts no timer for a negative interval ("Timers cannot have negative
\* timeouts") and returns.
SingleShot(tm, ms) ==
  IF ms < 0 THEN tm
  ELSE Append([k \in 1..Len(tm) |-> [tm[k] EXCEPT !.latest = FALSE]],
              [interval |-> ms, latest |-> TRUE])

\* tune_timer.stop(), lines 1140 and 1242: self.tune_timer is never started,
\* and stop() reaches no timer that singleShot started.
TuneTimerStop(tm) == tm

\* playNextNote clearing the active note when it runs off the end of the tune.
PlayNextNoteSilencingAtEnd(index, playing, enabled, note, tm, r) ==
  LET j == IF playing THEN SkipInvalid(current_tune, index) ELSE index
      stop == ~playing \/ j >= Len(current_tune)
      n == KeyIndex(current_tune[j + 1].name)
  IN /\ current_note_index' = j
     /\ IF stop
        THEN /\ is_playing_tune' = FALSE
             /\ pauseResumeEnabled' = FALSE
             /\ freq_multiplier_step' = JNull
             /\ freq_multiplier' = 0
             /\ currentKey' = None
             /\ phases' = Zeros
             /\ timers' = tm
             /\ run' = IF playing /\ r.clean THEN [r EXCEPT !.done = TRUE] ELSE r
        ELSE /\ Len(tm) < MaxTimers
             /\ is_playing_tune' = TRUE
             /\ pauseResumeEnabled' = enabled
             /\ freq_multiplier_step' = JInt(n)
             /\ freq_multiplier' = ScalingFactor(n)
             /\ currentKey' = current_tune[j + 1].name
             /\ phases' = Zeros
             /\ timers' = SingleShot(tm, TimerInterval(current_tune[j + 1].duration))
             /\ run' = Logged(r, ScalingFactor(n))

\* playNextNote, lines 1148-1197, entered with the attributes as the caller
\* left them: index, playing, the button, the active note, the timers.
PlayNextNote(index, playing, enabled, note, tm, r) ==
  LET j == IF playing THEN SkipInvalid(current_tune, index) ELSE index
      stop == ~playing \/ j >= Len(current_tune)
      n == KeyIndex(current_tune[j + 1].name)
  IN /\ current_note_index' = j
     /\ IF stop
        THEN /\ is_playing_tune' = FALSE
             /\ pauseResumeEnabled' = FALSE
             /\ freq_multiplier_step' = note.step
             /\ freq_multiplier' = note.multiplier
             /\ currentKey' = note.key
             /\ phases' = note.phases
             /\ timers' = tm
             /\ run' = IF playing /\ r.clean THEN [r EXCEPT !.done = TRUE] ELSE r
        ELSE /\ Len(tm) < MaxTimers
             /\ is_playing_tune' = TRUE
             /\ pauseResumeEnabled' = enabled
             /\ freq_multiplier_step' = JInt(n)
             /\ freq_multiplier' = ScalingFactor(n)
             /\ currentKey' = current_tune[j + 1].name
             /\ phases' = Zeros
             /\ timers' = SingleShot(tm, TimerInterval(current_tune[j + 1].duration))
             /\ run' = Logged(r, ScalingFactor(n))

ActiveNote ==
  [step |-> freq_multiplier_step, multiplier |-> freq_multiplier,
   key |-> currentKey, phases |-> phases]

Silence ==
  [step |-> JNull, multiplier |-> 0, key |-> None, phases |-> Zeros]

\* playTune without the reset of the note index.
PlayTuneKeepingIndex ==
  /\ IF current_tune = << >> \/ is_playing_tune
     THEN UNCHANGED vars
     ELSE /\ is_paused' = FALSE
          /\ PlayNextNote(current_note_index, TRUE, TRUE, ActiveNote, timers,
                          [clean |-> TRUE, early |-> FALSE, done |-> FALSE,
                           trace |-> << >>, stopped |-> FALSE])
          /\ UNCHANGED << current_tune, index_at_pause, held, paramVars,
                          widgetVars, audioVars, displayVars, recVars, fileVars,
                          deviceVars, lockVars >>

\* playTune without the check that a tune is already being played.
PlayTuneWhilePlaying ==
  /\ IF current_tune = << >>
     THEN UNCHANGED vars
     ELSE /\ is_paused' = FALSE
          /\ PlayNextNote(0, TRUE, TRUE, ActiveNote, timers,
                          [clean |-> TRUE, early |-> FALSE, done |-> FALSE,
                           trace |-> << >>, stopped |-> FALSE])
          /\ UNCHANGED << current_tune, index_at_pause, held, paramVars,
                          widgetVars, audioVars, displayVars, recVars, fileVars,
                          deviceVars, lockVars >>

\* playTune, lines 1117-1130.
PlayTune ==
  /\ IF current_tune = << >> \/ is_playing_tune
     THEN UNCHANGED vars
     ELSE /\ is_paused' = FALSE
          /\ PlayNextNote(0, TRUE, TRUE, ActiveNote, timers,
                          [clean |-> TRUE, early |-> FALSE, done |-> FALSE,
                           trace |-> << >>, stopped |-> FALSE])
          /\ UNCHANGED << current_tune, index_at_pause, held, paramVars,
                          widgetVars, audioVars, displayVars, recVars, fileVars,
                          deviceVars, lockVars >>

\* pauseResumeTune, lines 1132-1146; the button is clickable only while enabled.
PauseResumeTune ==
  /\ pauseResumeEnabled
  /\ IF ~is_playing_tune
     THEN UNCHANGED vars
     ELSE IF ~is_paused
     THEN /\ is_paused' = TRUE
          /\ timers' = TuneTimerStop(timers)
          /\ index_at_pause' = current_note_index
          /\ run' = Disturbed(run)
          /\ UNCHANGED << current_tune, current_note_index, is_playing_tune,
                          pauseResumeEnabled, noteVars, held, paramVars,
                          widgetVars, audioVars, displayVars, recVars, fileVars,
                          deviceVars, lockVars >>
     ELSE /\ is_paused' = FALSE
          /\ PlayNextNote(current_note_index, is_playing_tune,
                          pauseResumeEnabled, ActiveNote, timers, Disturbed(run))
          /\ UNCHANGED << current_tune, index_at_pause, held, paramVars,
                          widgetVars, audioVars, displayVars, recVars, fileVars,
                          deviceVars, lockVars >>

RemoveAt(s, i) == [k \in 1..(Len(s) - 1) |-> IF k < i THEN s[k] ELSE s[k + 1]]

\* A pending single-shot timer fires: endCurrentNote, lines 1216-1237.
EndCurrentNote(i) ==
  LET tm == RemoveAt(timers, i)
      r0 == IF run.clean /\ is_playing_tune /\ ~timers[i].latest
            THEN [run EXCEPT !.early = TRUE] ELSE run
      r == Logged(r0, 0)
  IN /\ IF ~is_paused
        THEN PlayNextNote(current_note_index + 1, is_playing_tune,
                          pauseResumeEnabled, Silence, tm, r)
        ELSE /\ current_note_index' = current_note_index + 1
             /\ freq_multiplier_step' = JNull
             /\ freq_multiplier' = 0
             /\ currentKey' = None
             /\ phases' = Zeros
             /\ timers' = tm
             /\ run' = r
             /\ UNCHANGED << is_playing_tune, pauseResumeEnabled >>
     /\ UNCHANGED << current_tune, is_paused, index_at_pause, held, paramVars,
                     widgetVars, audioVars, displayVars, recVars, fileVars,
                     deviceVars, lockVars >>

TimerFire == \E i \in 1..Len(timers) : EndCurrentNote(i)

\* stopTune without the reset of the phases.
StopTuneKeepingPhases ==
  IF is_playing_tune
  THEN /\ timers' = TuneTimerStop(timers)
       /\ is_playing_tune' = FALSE
       /\ is_paused' = FALSE
       /\ current_note_index' = 0
       /\ pauseResumeEnabled' = FALSE
       /\ freq_multiplier_step' = JNull
       /\ freq_multiplier' = 0
       /\ currentKey' = None
       /\ run' = [Disturbed(run) EXCEPT !.stopped = TRUE]
       /\ UNCHANGED << current_tune, index_at_pause, phases, held, paramVars,
                       widgetVars, audioVars, displayVars, recVars, fileVars,
                       deviceVars, lockVars >>
  ELSE UNCHANGED vars

\* stopTune without the test of is_playing_tune.
StopTuneAlways ==
  /\ timers' = TuneTimerStop(timers)
  /\ is_playing_tune' = FALSE
  /\ is_paused' = FALSE
  /\ current_note_index' = 0
  /\ pauseResumeEnabled' = FALSE
  /\ freq_multiplier_step' = JNull
  /\ freq_multiplier' = 0
  /\ currentKey' = None
  /\ phases' = Zeros
  /\ run' = [Disturbed(run) EXCEPT !.stopped = TRUE]
  /\ UNCHANGED << current_tune, index_at_pause, held, paramVars, widgetVars,
                  audioVars, displayVars, recVars, fileVars,
                  deviceVars, lockVars >>

\* stopTune, lines 1239-1262.
StopTune ==
  IF is_playing_tune
  THEN /\ timers' = TuneTimerStop(timers)
       /\ is_playing_tune' = FALSE
       /\ is_paused' = FALSE
       /\ current_note_index' = 0
       /\ pauseResumeEnabled' = FALSE
       /\ freq_multiplier_step' = JNull
       /\ freq_multiplier' = 0
       /\ currentKey' = None
       /\ phases' = Zeros
       /\ run' = [Disturbed(run) EXCEPT !.stopped = TRUE]
       /\ UNCHANGED << current_tune, index_at_pause, held, paramVars,
                       widgetVars, audioVars, displayVars, recVars, fileVars,
                       deviceVars, lockVars >>
  ELSE UNCHANGED vars

\* ------------------------------------------------------------ key gestures

\* Most notes one recording session holds.
MaxRecorded == 2

\* The keyboard buttons the performer uses.
GestureKeys == { "C4", "A4" }

\* onKeyPressed, lines 801-835; sender().text() is a button of KEY_ORDER.
OnKeyPressed(key) ==
  /\ key \notin held
  /\ Cardinality(held) < MaxHeld
  /\ is_recording => Len(recorded_notes) < MaxRecorded
  /\ held' = held \cup {key}
  /\ IF key \in KeyNames
     THEN /\ freq_multiplier_step' = JInt(KeyIndex(key))
          /\ freq_multiplier' = ScalingFactor(KeyIndex(key))
          /\ currentKey' = key
          /\ phases' = Zeros
          /\ current_recording_note' =
               IF is_recording
               THEN << [name |-> key,
                        start_time |-> clock - recording_start_time[1],
                        end_time |-> << >>] >>
               ELSE current_recording_note
     ELSE UNCHANGED << noteVars, current_recording_note >>
  /\ run' = Disturbed(run)
  /\ UNCHANGED << current_tune, current_note_index, is_playing_tune, is_paused,
                  pauseResumeEnabled, timers, index_at_pause, paramVars,
                  widgetVars, audioVars, displayVars, clock, is_recording,
                  recording_start_time, recorded_notes, quantization, saved_tune,
                  fileVars, deviceVars, lockVars >>

\* onKeyReleased, lines 837-864.
OnKeyReleased(key) ==
  /\ key \in held
  /\ held' = held \ {key}
  /\ IF key \in KeyNames
     THEN /\ freq_multiplier_step' = JNull
          /\ freq_multiplier' = 0
          /\ currentKey' = None
          /\ phases' = Zeros
          /\ IF is_recording /\ current_recording_note # << >>
             THEN /\ recorded_notes' =
                       Append(recorded_notes,
                              [current_recording_note[1] EXCEPT
                                 !.end_time = << clock - recording_start_time[1] >>])
                  /\ current_recording_note' = << >>
             ELSE UNCHANGED << recorded_notes, current_recording_note >>
     ELSE UNCHANGED << noteVars, recorded_notes, current_recording_note >>
  /\ run' = Disturbed(run)
  /\ UNCHANGED << current_tune, current_note_index, is_playing_tune, is_paused,
                  pauseResumeEnabled, timers, index_at_pause, paramVars,
                  widgetVars, audioVars, displayVars, clock, is_recording,
                  recording_start_time, quantization, saved_tune, fileVars, deviceVars,
                  lockVars >>

KeyPressed == \E key \in GestureKeys : OnKeyPressed(key)
KeyReleased == \E key \in held : OnKeyReleased(key)
TuneLoad == \E file \in TuneFiles : LoadTune(file)

\* ----------------------------------------------------------- settings loads

\* QDoubleSpinBox.setValue / QSlider.setValue keep the value in the range.
Clamp(lo, hi, x) == IF x < lo THEN lo ELSE IF x > hi THEN hi ELSE x

\* The ranges initUI gives the spin boxes, in the model's units.
FreqMin == 2000
FreqMax == (SAMPLE_RATE * 100) \div 2
TimeScaleMin == 2
TimeScaleMax == 200000
HoldoffMax == 10000
KeyShiftMax == 24
ThresholdMax == 100

RequiredKeys ==
  { "amplitudes", "frequencies", "waveforms", "dc_offset", "time_scale",
    "trigger_threshold", "trigger_edge", "trigger_holdoff", "volume",
    "frequency_multiplier_step", "key_shift_semitones" }

OscillatorKeys == { "amplitudes", "frequencies", "waveforms" }

\* A well-formed settings file; the others differ from it in one place.
BaseFile ==
  [ keys |-> RequiredKeys,
    amplitudes |-> [i \in 1..num_oscillators |-> JNum(Unit \div 2)],
    frequencies |-> [i \in 1..num_oscillators |-> JNum(1102500)],
    waveforms |-> [i \in 1..num_oscillators |-> "Square"],
    dc_offset |-> JNum(2),
    time_scale |-> JNum(10000),
    trigger_threshold |-> JNum(50),
    trigger_edge |-> "Falling",
    trigger_holdoff |-> JNum(500),
    volume |-> JNum(Unit \div 2),
    frequency_multiplier_step |-> JInt(5),
    key_shift_semitones |-> JInt(2) ]

\* The settings files the performer may pick in the Load dialogs.
SettingsFiles ==
  { BaseFile,
    [BaseFile EXCEPT !.frequency_multiplier_step = JNull,
                     !.waveforms[num_oscillators] = "Noise",
                     !.trigger_edge = "Both"],
    [BaseFile EXCEPT !.frequency_multiplier_step = JInt(30)],
    [BaseFile EXCEPT !.frequency_multiplier_step = JStr],
    [BaseFile EXCEPT !.frequency_multiplier_step = JNum(7)],
    [BaseFile EXCEPT !.key_shift_semitones = JStr],
    [BaseFile EXCEPT !.amplitudes[num_oscillators] = JStr],
    [BaseFile EXCEPT !.keys = RequiredKeys \ {"volume"}],
    [BaseFile EXCEPT !.amplitudes = SubSeq(@, 1, num_oscillators - 1)] }

OscillatorFiles ==
  { [keys |-> OscillatorKeys,
     amplitudes |-> BaseFile.amplitudes,
     frequencies |-> BaseFile.frequencies,
     waveforms |-> BaseFile.waveforms],
    [keys |-> OscillatorKeys,
     amplitudes |-> BaseFile.amplitudes,
     frequencies |-> [BaseFile.frequencies EXCEPT ![1] = JNull],
     waveforms |-> BaseFile.waveforms],
    [keys |-> OscillatorKeys \ {"waveforms"},
     amplitudes |-> BaseFile.amplitudes,
     frequencies |-> BaseFile.frequencies,
     waveforms |-> BaseFile.waveforms],
    [keys |-> OscillatorKeys,
     amplitudes |-> BaseFile.amplitudes,
     frequencies |-> BaseFile.frequencies \o << JNum(FreqMin) >>,
     waveforms |-> BaseFile.waveforms] }

\* The checks without the loop over the required keys.
ValidatedLengthsOnly(file, required) ==
  /\ Len(file.amplitudes) = num_oscillators
  /\ Len(file.frequencies) = num_oscillators
  /\ Len(file.waveforms) = num_oscillators

\* The checks before anything is applied, lines 917-931 and 1054-1066.
Validated(file, required) ==
  /\ required \subseteq file.keys
  /\ Len(file.amplitudes) = num_oscillators
  /\ Len(file.frequencies) = num_oscillators
  /\ Len(file.waveforms) = num_oscillators

\* The statements that apply a file, numbered in the order they run: three
\* per oscillator (lines 946-953), then lines 954-968, the locked key shift
\* (971-973), the multiplier (975-1001) and the end (1003-1016).
AmpStage(i) == 3 * (i - 1) + 1
FreqStage(i) == 3 * (i - 1) + 2
WaveStage(i) == 3 * (i - 1) + 3
DcStage == 3 * num_oscillators + 1
TimeScaleStage == 3 * num_oscillators + 2
ThresholdStage == 3 * num_oscillators + 3
EdgeStage == 3 * num_oscillators + 4
HoldoffStage == 3 * num_oscillators + 5
VolumeStage == 3 * num_oscillators + 6
StepStage == 3 * num_oscillators + 7
ShiftBoxStage == 3 * num_oscillators + 8
ShiftLockStage == 3 * num_oscillators + 9
MultiplierStage == 3 * num_oscillators + 10
EndStage == 3 * num_oscillators + 11

\* 0 <= step < len(KEY_ORDER), line 975, for a number.
StepInRange(step) == 0 <= step.v /\ step.v < Len(KEY_ORDER)

\* The stages of loadAllSettings that raise on this file: setValue of a
\* QDoubleSpinBox takes a number, int(volume * 100) a number, setValue of a
\* QSpinBox an int; a str does not compare with 0 and a float does not index
\* KEY_ORDER.
RaisingStages(file) ==
  { AmpStage(i) : i \in { k \in 1..num_oscillators : ~IsNumber(file.amplitudes[k]) } }
  \cup { FreqStage(i) : i \in { k \in 1..num_oscillators : ~IsNumber(file.frequencies[k]) } }
  \cup (IF IsNumber(file.dc_offset) THEN {} ELSE {DcStage})
  \cup (IF IsNumber(file.time_scale) THEN {} ELSE {TimeScaleStage})
  \cup (IF IsNumber(file.trigger_threshold) THEN {} ELSE {ThresholdStage})
  \cup (IF IsNumber(file.trigger_holdoff) THEN {} ELSE {HoldoffStage})
  \cup (IF IsNumber(file.volume) THEN {} ELSE {VolumeStage})
  \cup (IF file.key_shift_semitones.t = "int" THEN {} ELSE {ShiftBoxStage})
  \cup (IF \/ file.frequency_multiplier_step.t = "str"
           \/ /\ file.frequency_multiplier_step.t = "float"
              /\ StepInRange(file.frequency_multiplier_step)
        THEN {MultiplierStage} ELSE {})

\* The stages of loadOscillatorSettings that raise, lines 1075-1082.
OscRaisingStages(file) ==
  { AmpStage(i) : i \in { k \in 1..num_oscillators : ~IsNumber(file.amplitudes[k]) } }
  \cup { FreqStage(i) : i \in { k \in 1..num_oscillators : ~IsNumber(file.frequencies[k]) } }

\* The first stage that raises; past the end when none does.
FailStage(raising) ==
  IF raising = {} THEN EndStage + 1
  ELSE CHOOSE s \in raising : \A t \in raising : s <= t

\* The oscillator rows after the loop of lines 946-953 (1075-1082) has run
\* up to the stage that raised.
OscillatorRows(c, file, fs) ==
  [c EXCEPT
     !.amplitudeControls =
        [i \in 1..num_oscillators |->
           IF AmpStage(i) < fs THEN Clamp(0, Unit, file.amplitudes[i].v) ELSE @[i]],
     !.frequencyControls =
        [i \in 1..num_oscillators |->
           IF FreqStage(i) < fs THEN Clamp(FreqMin, FreqMax, file.frequencies[i].v)
           ELSE @[i]],
     !.waveformControls =
        [i \in 1..num_oscillators |->
           IF WaveStage(i) < fs
           THEN IF \E k \in 1..Len(WAVEFORM_OPTIONS) : WAVEFORM_OPTIONS[k] = file.waveforms[i]
                THEN file.waveforms[i] ELSE "Sine"
           ELSE @[i]] ]

\* int(volume * 100) for the slider, line 963.
VolumePercent(v) == (v * 100) \div Unit

\* The other widgets after lines 954-968 have run up to the stage that raised.
OtherWidgets(c, file, fs) ==
  [c EXCEPT
     !.dcSpinBox = IF DcStage < fs THEN Clamp(-Unit, Unit, file.dc_offset.v) ELSE @,
     !.timeScaleSpinBox =
        IF TimeScaleStage < fs
        THEN Clamp(TimeScaleMin, TimeScaleMax, file.time_scale.v) ELSE @,
     !.triggerThresholdSpinBox =
        IF ThresholdStage < fs
        THEN Clamp(-ThresholdMax, ThresholdMax, file.trigger_threshold.v) ELSE @,
     !.triggerEdgeComboBox =
        IF EdgeStage < fs /\ file.trigger_edge \in {"Rising", "Falling"}
        THEN file.trigger_edge ELSE @,
     !.triggerHoldoffSpinBox =
        IF HoldoffStage < fs THEN Clamp(0, HoldoffMax, file.trigger_holdoff.v) ELSE @,
     !.volumeSlider =
        IF VolumeStage < fs THEN Clamp(0, 100, VolumePercent(file.volume.v)) ELSE @,
     !.keyShiftSpinBox =
        IF ShiftBoxStage < fs
        THEN Clamp(-KeyShiftMax, KeyShiftMax, file.key_shift_semitones.v) ELSE @ ]

\* updateParameters, lines 785-799, reading the widgets c.
UpdateParameters(c) ==
  /\ amp_values' = c.amplitudeControls
  /\ freq_values' = c.frequencyControls
  /\ waveform_types' = c.waveformControls
  /\ dc_value' = c.dcSpinBox
  /\ trigger_threshold' = c.triggerThresholdSpinBox
  /\ trigger_edge' = c.triggerEdgeComboBox

\* Lines 965-966 and 975-1001: the step is stored as read, then the
\* multiplier and the current key follow it, or all three are reset.
LoadedNote(file, fs) ==
  LET step == file.frequency_multiplier_step
      stored == IF StepStage < fs
                THEN [ActiveNote EXCEPT !.step = step] ELSE ActiveNote
  IN IF fs < MultiplierStage THEN stored
     ELSE IF step.t = "str" THEN stored
     ELSE IF step.t \in {"int", "float"} /\ StepInRange(step)
     THEN IF step.t = "int"
          THEN [stored EXCEPT !.multiplier = ScalingFactor(step.v),
                              !.key = KEY_ORDER[step.v + 1]]
          ELSE [stored EXCEPT !.multiplier = ScalingFactor(step.v)]
     ELSE [stored EXCEPT !.step = JNull, !.multiplier = 0, !.key = None]

\* loadAllSettings, lines 912-1020, on the file picked in the dialog.
LoadAllSettings(file) ==
  IF ~Validated(file, RequiredKeys)
  THEN /\ load_failed' = TRUE
       /\ UNCHANGED << schedVars, noteVars, held, paramVars, widgetVars,
                       audioVars, displayVars, recVars, saved_settings, deviceVars, lockVars >>
  ELSE LET fs == FailStage(RaisingStages(file))
           c == OtherWidgets(OscillatorRows(controls, file, fs), file, fs)
           note == LoadedNote(file, fs)
       IN /\ controls' = c
          /\ signalsBlocked' =
               IF fs <= EndStage THEN {"oscillators", "others"} ELSE {}
          /\ freq_multiplier_step' = note.step
          /\ freq_multiplier' = note.multiplier
          /\ currentKey' = note.key
          /\ key_shift_semitones' =
               IF ShiftLockStage < fs THEN file.key_shift_semitones.v
               ELSE key_shift_semitones
          /\ IF fs > EndStage
             THEN UpdateParameters(c)
             ELSE UNCHANGED << amp_values, freq_values, waveform_types, dc_value,
                               trigger_threshold, trigger_edge >>
          /\ run' = Disturbed(run)
          /\ load_failed' = (fs <= EndStage)
          /\ UNCHANGED << current_tune, current_note_index, is_playing_tune,
                          is_paused, pauseResumeEnabled, timers, index_at_pause,
                          phases, held, volume, audioVars, displayVars, recVars,
                          saved_settings, deviceVars, lockVars >>

\* loadOscillatorSettings, lines 1049-1095.
LoadOscillatorSettings(file) ==
  IF ~Validated(file, OscillatorKeys)
  THEN /\ load_failed' = TRUE
       /\ UNCHANGED << schedVars, noteVars, held, paramVars, widgetVars,
                       audioVars, displayVars, recVars, saved_settings, deviceVars, lockVars >>
  ELSE LET fs == FailStage(OscRaisingStages(file))
           c == OscillatorRows(controls, file, fs)
       IN /\ controls' = c
          /\ signalsBlocked' =
               IF fs <= EndStage THEN signalsBlocked \cup {"oscillators"}
               ELSE signalsBlocked \ {"oscillators"}
          /\ IF fs > EndStage
             THEN UpdateParameters(c)
             ELSE UNCHANGED << amp_values, freq_values, waveform_types, dc_value,
                               trigger_threshold, trigger_edge >>
          /\ load_failed' = (fs <= EndStage)
          /\ UNCHANGED << schedVars, noteVars, held, volume, key_shift_semitones,
                          audioVars, displayVars, recVars, saved_settings, deviceVars,
                          lockVars >>

\* The files the scheduler is exercised with: a good one, one that resets
\* the step, one that raises after the step is stored.
SchedulerFiles ==
  { BaseFile,
    [BaseFile EXCEPT !.frequency_multiplier_step = JNull],
    [BaseFile EXCEPT !.key_shift_semitones = JStr] }

SettingsLoad == \E file \in SchedulerFiles : LoadAllSettings(file)
AnySettingsLoad == \E file \in SettingsFiles : LoadAllSettings(file)
OscillatorLoad == \E file \in OscillatorFiles : LoadOscillatorSettings(file)

\* ------------------------------------------------------------ audio thread

\* self.key_shift_factor = 2 ** (self.key_shift_semitones / 12), lines 151, 973.
key_shift_factor == ScalingFactor(key_shift_semitones)

\* Products and quotients of fixed-point numbers, rounded towards zero.
TruncDiv(a, b) == IF a >= 0 THEN a \div b ELSE -((-a) \div b)
FixMul(a, b) == TruncDiv(a * b, Unit)

\* phase_increment = 2 * pi * freq / SAMPLE_RATE with
\* freq = freq_values[i] * freq_multiplier * key_shift_factor, lines 658-659,
\* in quarter turns per sample; the products are scaled down step by step.
EffectiveFrequency(freq, multiplier, shift) ==
  (((((freq \div 10) * multiplier) \div 100) \div 100) * shift) \div 1000

PhaseIncrement(freq, multiplier, shift) ==
  (TwoPi * EffectiveFrequency(freq, multiplier, shift)) \div SAMPLE_RATE

\* np.sin at q quarter turns.
Sin(q) == CASE q % TwoPi = 0 -> 0
            [] q % TwoPi = 1 -> Unit
            [] q % TwoPi = 2 -> 0
            [] OTHER -> -Unit

Sign(x) == IF x > 0 THEN Unit ELSE IF x < 0 THEN -Unit ELSE 0

\* 2 * (p - floor(p + 0.5)) with p = phase / (2 * pi), lines 670 and 673.
Saw(q) == 2 * ((q * Unit) \div TwoPi - Unit * ((2 * q + TwoPi) \div (2 * TwoPi)))

\* One sample of a waveform at q quarter turns, lines 664-673.
Waveform(kind, q) ==
  CASE kind = "Sine" -> Sin(q)
    [] kind = "Square" -> Sign(Sin(q))
    [] kind = "Sawtooth" -> Saw(q)
    [] kind = "Triangle" -> 2 * Abs(Saw(q)) - Unit
    [] OTHER -> 0

\* The loop of lines 656-673 for sample k: the oscillators 1..i summed.
RECURSIVE Mix(_, _, _)
Mix(snap, k, i) ==
  IF i = 0 THEN 0
  ELSE Mix(snap, k, i - 1)
       + FixMul(snap.amp_values[i],
                Waveform(snap.waveforms[i],
                         snap.phases[i]
                         + PhaseIncrement(snap.freq_values[i], snap.freq_multiplier,
                                          snap.key_shift_factor) * k))

\* max over a non-empty sequence of magnitudes: np.max(np.abs(out)).
RECURSIVE PeakOf(_, _)
PeakOf(out, n) ==
  IF n = 0 THEN 0 ELSE Max(Abs(out[n]), PeakOf(out, n - 1))

\* Lines 679-682 without the normalization that follows them.
NormalizeSkipped(raw, dc, vol) ==
  [k \in 1..Len(raw) |-> FixMul(raw[k] + dc, vol)]

\* Lines 679-688: DC offset, volume, then the division by the peak.
Normalize(raw, dc, vol) ==
  LET scaled == [k \in 1..Len(raw) |-> FixMul(raw[k] + dc, vol)]
      max_amp == PeakOf(scaled, Len(scaled)) + Abs(dc)
  IN IF max_amp > Unit
     THEN [k \in 1..Len(scaled) |-> TruncDiv(scaled[k] * Unit, max_amp)]
     ELSE scaled

Silent(snap) == snap.freq_multiplier = 0 /\ snap.dc = 0

\* The callback without its silent branch.
GenerateAlways(snap) ==
  Normalize([k \in 1..snap.frames |-> Mix(snap, k - 1, num_oscillators)],
            snap.dc, snap.volume)

\* The buffer one callback produces from its snapshot, lines 652-688.
Generate(snap) ==
  IF Silent(snap)
  THEN [k \in 1..snap.frames |-> 0]
  ELSE Normalize([k \in 1..snap.frames |-> Mix(snap, k - 1, num_oscillators)],
                 snap.dc, snap.volume)

\* The local phases at the end of the callback, lines 676-677; the silent
\* branch leaves the copy taken at entry.
AdvancedPhases(snap) ==
  IF Silent(snap) THEN snap.phases
  ELSE [i \in 1..num_oscillators |->
          (snap.phases[i]
           + PhaseIncrement(snap.freq_values[i], snap.freq_multiplier,
                            snap.key_shift_factor) * snap.frames) % TwoPi]

\* A history that keeps its oldest samples once it is full.
ExtendKeepingOldest(buffer, out, maxlen) ==
  LET all == buffer \o out
  IN IF Len(all) <= maxlen THEN all ELSE SubSeq(all, 1, maxlen)

\* deque(maxlen).extend: the newest maxlen samples are kept.
Extend(buffer, out, maxlen) ==
  LET all == buffer \o out
  IN IF Len(all) <= maxlen THEN all
     ELSE SubSeq(all, Len(all) - maxlen + 1, Len(all))

\* audioCallback up to the end of its first locked block, lines 636-650;
\* the callback is run by a started stream only (lines 609-613).
AudioEnter(frames) ==
  /\ stream # << >> /\ stream[1].active
  /\ ~cb.busy
  /\ cb' = [busy |-> TRUE, frames |-> frames,
            amp_values |-> amp_values, freq_values |-> freq_values,
            phases |-> phases, waveforms |-> waveform_types, dc |-> dc_value,
            volume |-> volume, freq_multiplier |-> freq_multiplier,
            key_shift_factor |-> key_shift_factor]
  /\ UNCHANGED << schedVars, noteVars, held, paramVars, widgetVars, outdata,
                  cumulative_buffer, trigger_buffer, displayVars, recVars, fileVars,
                  deviceVars, lockVars >>

\* The rest of audioCallback, lines 652-705: generation without the lock,
\* then the phases and the histories under it.
AudioExit ==
  /\ cb.busy
  /\ LET out == Generate(cb)
     IN /\ outdata' = out
        /\ phases' = AdvancedPhases(cb)
        /\ IF cb.freq_multiplier # 0 \/ cb.dc # 0
           THEN /\ cumulative_buffer' = Extend(cumulative_buffer, out, CumulativeMaxLen)
                /\ trigger_buffer' = Extend(trigger_buffer, out, TriggerMaxLen)
           ELSE /\ cumulative_buffer' = << >>
                /\ trigger_buffer' = << >>
  /\ cb' = Idle
  /\ UNCHANGED << schedVars, freq_multiplier_step, freq_multiplier, currentKey,
                  held, paramVars, widgetVars, displayVars, recVars, fileVars,
                  deviceVars, lockVars >>

AudioCallbackEntry == \E frames \in 1..MaxFrames : AudioEnter(frames)

\* ---------------------------------------------------------- specifications

\* The GUI thread: the scheduler, the keyboard and the settings dialog.
Next ==
  \/ TuneLoad
  \/ PlayTune
  \/ PauseResumeTune
  \/ TimerFire
  \/ StopTune
  \/ KeyPressed
  \/ KeyReleased
  \/ SettingsLoad

Spec == Init /\ [][Next]_vars


\* The scheduler beside the audio thread.  The performer has typed 11025.00
\* into every frequency spin box (valueChanged runs updateParameters), so the
\* phases move by whole quarter turns.
EngineFrequency == 1102500

InitEngine ==
  /\ InitScheduler
  /\ InitNote
  /\ InitParameters([InitControls EXCEPT
                       !.frequencyControls = [i \in 1..num_oscillators |-> EngineFrequency]])
  /\ volume = Unit
  /\ InitStream
  /\ trigger_buffer = << >>
  /\ InitDisplay
  /\ InitFiles
  /\ InitDevice
  /\ InitLock
  /\ InitRecording

\* The tune files the engine is exercised with: the first and the empty one.
EngineTuneFiles ==
  { file \in TuneFiles : file.has_notes /\ Len(file.notes) # 1
                          /\ \A k \in 1..Len(file.notes) : file.notes[k].name \in KeyNames }

EngineTuneLoad == \E file \in EngineTuneFiles : LoadTune(file)

NextEngine ==
  \/ EngineTuneLoad
  \/ PlayTune
  \/ PauseResumeTune
  \/ TimerFire
  \/ StopTune
  \/ AudioCallbackEntry
  \/ AudioExit

SpecEngine == InitEngine /\ [][NextEngine]_vars


\* The audio callback over the oscillator and mix parameters the performer
\* may have set, with one key to start and end a note.
AudioAmplitudes ==
  { [i \in 1..num_oscillators |-> 0],
    [i \in 1..num_oscillators |-> IF i = 1 THEN Unit ELSE 0],
    [i \in 1..num_oscillators |-> Unit] }
AudioWaveforms ==
  { [i \in 1..num_oscillators |-> WAVEFORM_OPTIONS[((w + i) % Len(WAVEFORM_OPTIONS)) + 1]] :
      w \in { 1, 3 } }
AudioOffsets == { -Unit, 0, 2 }
AudioVolumes == { Unit \div 2, Unit }
AudioFrequency(i) == IF i % 2 = 1 THEN EngineFrequency ELSE 2 * EngineFrequency
AudioKey == "G3"

InitAudio ==
  /\ InitScheduler
  /\ InitNote
  /\ volume \in AudioVolumes
  /\ \E amplitudes \in AudioAmplitudes, waveforms \in AudioWaveforms, dc \in AudioOffsets :
       InitParameters([InitControls EXCEPT
                         !.amplitudeControls = amplitudes,
                         !.frequencyControls = [i \in 1..num_oscillators |-> AudioFrequency(i)],
                         !.waveformControls = waveforms,
                         !.dcSpinBox = dc,
                         !.volumeSlider = VolumePercent(volume)])
  /\ InitStream
  /\ trigger_buffer = << >>
  /\ InitDisplay
  /\ InitFiles
  /\ InitDevice
  /\ InitLock
  /\ InitRecording

AudioKeyPressed == OnKeyPressed(AudioKey)
AudioKeyReleased == OnKeyReleased(AudioKey)

NextAudio ==
  \/ AudioCallbackEntry
  \/ AudioExit
  \/ AudioKeyPressed
  \/ AudioKeyReleased

SpecAudio == InitAudio /\ [][NextAudio]_vars


\* ------------------------------------------------------- trigger detection

\* buffer[k] < threshold and buffer[k] > threshold: a sample is in units of
\* 1/Unit, the threshold in hundredths.
Below(sample, threshold) == sample * 100 < threshold * Unit
Above(sample, threshold) == sample * 100 > threshold * Unit

\* np.where(...)[0], lines 722 and 725: the 0-based indices k of buffer[:-1]
\* at which the pair (buffer[k], buffer[k+1]) crosses, in ascending order.
Crossings(buffer, threshold, edge) ==
  LET Crosses(k) ==
        IF edge = "Rising"
        THEN Below(buffer[k + 1], threshold) /\ ~Below(buffer[k + 2], threshold)
        ELSE Above(buffer[k + 1], threshold) /\ ~Above(buffer[k + 2], threshold)
  IN SelectSeq([k \in 1..(Len(buffer) - 1) |-> k - 1], Crosses)

\* detectTrigger returning the first crossing instead of the last.
detectTriggerFirst(buffer, threshold, edge) ==
  LET crossings == Crossings(buffer, threshold, edge)
  IN IF Len(crossings) > 0
     THEN << crossings[1] + 1 >>
     ELSE << >>

\* detectTrigger, lines 707-731: << >> is None, << i >> the index i.
detectTrigger(buffer, threshold, edge) ==
  LET crossings == Crossings(buffer, threshold, edge)
  IN IF Len(crossings) > 0
     THEN << crossings[Len(crossings)] + 1 >>
     ELSE << >>

\* One call of detectTrigger on the trigger history, as at line 746.
DetectTrigger ==
  /\ trigger_index' = << detectTrigger(trigger_buffer, trigger_threshold, trigger_edge) >>
  /\ UNCHANGED << last_trigger_time, plot, plot_clock >>
  /\ UNCHANGED << schedVars, noteVars, held, paramVars, widgetVars, audioVars,
                  recVars, fileVars, deviceVars, lockVars >>

\* The trigger settings and the histories detection is exercised with.
TriggerSamples == { -Unit, 0, Unit \div 2, Unit }
TriggerThresholds == { 0, 50 }
TriggerEdges == { "Rising", "Falling" }

RECURSIVE SeqsUpTo(_, _)
SeqsUpTo(S, n) ==
  IF n = 0 THEN { << >> }
  ELSE LET shorter == SeqsUpTo(S, n - 1)
       IN shorter \cup { Append(q, x) : q \in shorter, x \in S }

InitTrigger ==
  /\ InitScheduler
  /\ InitNote
  /\ \E threshold \in TriggerThresholds, edge \in TriggerEdges :
       InitParameters([InitControls EXCEPT
                         !.triggerThresholdSpinBox = threshold,
                         !.triggerEdgeComboBox = edge])
  /\ volume = Unit
  /\ InitStream
  /\ trigger_buffer \in SeqsUpTo(TriggerSamples, TriggerMaxLen)
  /\ InitDisplay
  /\ InitFiles
  /\ InitDevice
  /\ InitLock
  /\ InitRecording

NextTrigger == DetectTrigger

SpecTrigger == InitTrigger /\ [][NextTrigger]_vars

\* ---------------------------------------------------------------- recording

\* changeQuantization, lines 191-198.
ChangeQuantization(index) ==
  /\ quantization' = IF index = 0 THEN WHOLE
                     ELSE IF index = 1 THEN HALF
                     ELSE IF index = 2 THEN QUARTER
                     ELSE quantization
  /\ UNCHANGED << schedVars, noteVars, held, paramVars, widgetVars, audioVars,
                  displayVars, clock, is_recording, recording_start_time,
                  recorded_notes, current_recording_note, saved_tune, fileVars, deviceVars,
                  lockVars >>

\* startRecording, lines 200-208; the Start button is disabled while a
\* recording runs (line 207).
StartRecording ==
  /\ ~is_recording
  /\ is_recording' = TRUE
  /\ recorded_notes' = << >>
  /\ recording_start_time' = << clock >>
  /\ UNCHANGED << schedVars, noteVars, held, paramVars, widgetVars, audioVars,
                  displayVars, clock, current_recording_note, quantization,
                  saved_tune, fileVars, deviceVars, lockVars >>

\* The loop body with the duration itself as the initial value.
QuantizedDurationKept(duration, u) ==
  IF 2 * duration < u THEN u \div 2
  ELSE IF 2 * duration > 3 * u THEN (3 * u) \div 2
  ELSE duration

\* The body of the loop of quantize_notes, lines 1276-1282; duration < u / 2
\* and duration > u * 1.5 compared without rounding.
QuantizedDuration(duration, u) ==
  IF 2 * duration < u THEN u \div 2
  ELSE IF 2 * duration > 3 * u THEN (3 * u) \div 2
  ELSE u

\* quantize_notes, lines 1264-1288.
RECURSIVE quantize_notes(_, _)
quantize_notes(notes, u) ==
  IF notes = << >> THEN << >>
  ELSE LET note == Head(notes)
           rest == quantize_notes(Tail(notes), u)
       IN IF note.end_time = << >> THEN rest
          ELSE << [name |-> note.name,
                   duration |-> QuantizedDuration(note.end_time[1] - note.start_time, u)] >>
               \o rest

\* saveRecording writing the recorded lengths as they are.
SaveRecordingUnquantized(filename) ==
  saved_tune' =
    IF filename
    THEN << [has_notes |-> TRUE,
             notes |-> [k \in 1..Len(recorded_notes) |->
                          [name |-> recorded_notes[k].name,
                           duration |-> recorded_notes[k].end_time[1]
                                          - recorded_notes[k].start_time]]] >>
    ELSE saved_tune

\* saveRecording, lines 1290-1315: the tune is written when the performer
\* picks a file name.
SaveRecording(filename) ==
  saved_tune' =
    IF filename
    THEN << [has_notes |-> TRUE, notes |-> quantize_notes(recorded_notes, quantization)] >>
    ELSE saved_tune

\* stopRecording going on to saveRecording whatever was recorded.
StopRecordingSavingAnyway(filename) ==
  /\ is_recording
  /\ is_recording' = FALSE
  /\ SaveRecording(filename)
  /\ UNCHANGED << schedVars, noteVars, held, paramVars, widgetVars, audioVars,
                  displayVars, clock, recording_start_time, recorded_notes,
                  current_recording_note, quantization, fileVars, deviceVars, lockVars >>

\* stopRecording, lines 210-223; the Stop button is enabled only while a
\* recording runs (lines 169, 208, 216).
StopRecording(filename) ==
  /\ is_recording
  /\ is_recording' = FALSE
  /\ IF recorded_notes = << >>
     THEN saved_tune' = saved_tune
     ELSE SaveRecording(filename)
  /\ UNCHANGED << schedVars, noteVars, held, paramVars, widgetVars, audioVars,
                  displayVars, clock, recording_start_time, recorded_notes,
                  current_recording_note, quantization, fileVars, deviceVars, lockVars >>

QuantizationChange == \E index \in 0..2 : ChangeQuantization(index)
RecordingStop == \E filename \in BOOLEAN : StopRecording(filename)

\* The sessions quantization is exercised with: notes already released, held
\* for the lengths below.
RecordedDurations == { 0, QUARTER \div 5, QUARTER \div 2, QUARTER + 10, QUARTER + HALF \div 4,
                       HALF - 20, HALF + QUARTER, HALF + 60, WHOLE + HALF, WHOLE + HALF + 10 }
RecordedStarts == { 0, QUARTER }
RecordedNotes ==
  { [name |-> "C4", start_time |-> s, end_time |-> << s + d >>] :
      s \in RecordedStarts, d \in RecordedDurations }

InitQuantize ==
  /\ InitScheduler
  /\ InitNote
  /\ InitParameters(InitControls)
  /\ volume = Unit
  /\ InitStream
  /\ trigger_buffer = << >>
  /\ InitDisplay
  /\ InitFiles
  /\ InitDevice
  /\ InitLock
  /\ clock = QUARTER + 2 * WHOLE
  /\ is_recording = TRUE
  /\ recording_start_time = << 0 >>
  /\ recorded_notes \in SeqsUpTo(RecordedNotes, MaxRecorded)
  /\ current_recording_note = << >>
  /\ quantization \in { WHOLE, HALF, QUARTER }
  /\ saved_tune = << >>

NextQuantize ==
  \/ QuantizationChange
  \/ StartRecording
  \/ RecordingStop

SpecQuantize == InitQuantize /\ [][NextQuantize]_vars


\* ================================================================== claims

\* The writes of freq_multiplier an undisturbed playback of tune makes: each
\* valid note's 2^(offset/12), then 0 when its timer fires.
RECURSIVE ExpectedTrace(_)
ExpectedTrace(tune) ==
  IF tune = << >> THEN << >>
  ELSE IF Head(tune).name \in KeyNames
  THEN << ScalingFactor(KeyIndex(Head(tune).name)), 0 >> \o ExpectedTrace(Tail(tune))
  ELSE ExpectedTrace(Tail(tune))

IsPrefix(s, t) == Len(s) <= Len(t) /\ SubSeq(t, 1, Len(s)) = s

\* C1: after Play, with no later Pause, Stop, tune load or key gesture, the
\* active multiplier takes the first valid note's 2^(offset/12), then 0, then
\* the next note's value, and so on in tune order; no note is ended by a timer
\* other than its own; and a playback that dispatched a note has finished
\* with the scheduler Stopped and multiplier 0.
C1_PlaysEachNoteForItsDuration ==
  run.clean =>
    /\ ~run.early
    /\ IsPrefix(run.trace, ExpectedTrace(current_tune))
    /\ (run.done /\ ExpectedTrace(current_tune) # << >>)
         => /\ run.trace = ExpectedTrace(current_tune)
            /\ ~is_playing_tune
            /\ freq_multiplier = 0

\* C2: while the scheduler is Paused no note-end timer takes effect: a timer
\* firing changes neither the active multiplier nor the note index.
C2_PauseHoldsNoteAndIndex ==
  [][(is_playing_tune /\ is_paused /\ TimerFire)
       => (freq_multiplier' = freq_multiplier
           /\ current_note_index' = current_note_index)]_vars

\* C3: Stop invoked while Playing or Paused leaves the scheduler Stopped and
\* not paused, with note index 0, multiplier 0, no step, no current key and
\* every oscillator phase 0.
C3_StopResetsScheduler ==
  [][(is_playing_tune /\ StopTune)
       => (/\ ~is_playing_tune'
           /\ ~is_paused'
           /\ current_note_index' = 0
           /\ freq_multiplier' = 0
           /\ freq_multiplier_step' = JNull
           /\ currentKey' = None
           /\ \A i \in 1..num_oscillators : phases'[i] = 0)]_vars

\* A Stop has acted on a playback the audio thread had been rendering: the
\* note's timer is still pending, the scheduler and the note are reset.
C3_StoppedWhilePlaying ==
  /\ ~is_playing_tune
  /\ ~is_paused
  /\ current_tune # << >>
  /\ current_note_index = 0
  /\ timers # << >>
  /\ freq_multiplier = 0
  /\ currentKey = None
  /\ phases = Zeros
  /\ outdata # << >>
  /\ trigger_buffer # << >>

\* C4: Resume dispatches the note that was at the index when Pause was
\* invoked: the index is that note's, the multiplier its 2^(offset/12), and a
\* timer of its full duration is scheduled.
C4_ResumeRestartsPausedNote ==
  [][(is_playing_tune /\ is_paused /\ PauseResumeTune)
       => (/\ current_note_index' = index_at_pause
           /\ is_playing_tune'
           /\ freq_multiplier' =
                ScalingFactor(KeyIndex(current_tune[index_at_pause + 1].name))
           /\ timers' # << >>
           /\ timers'[Len(timers')].interval =
                TimerInterval(current_tune[index_at_pause + 1].duration))]_vars

\* C5: with two keys down, releasing the key that was pressed first leaves
\* the multiplier of the key pressed last.
C5_LastKeyDownWins ==
  [][\A key \in held :
       (/\ ~is_playing_tune
        /\ currentKey \in held
        /\ currentKey # key
        /\ OnKeyReleased(key))
       => freq_multiplier' = freq_multiplier]_vars

\* C10: in every state the active multiplier is 0 with no step recorded, or
\* 2^(n/12) for the recorded integer step n in 0..24.
C10_MultiplierMatchesStep ==
  \/ freq_multiplier = 0 /\ freq_multiplier_step = JNull
  \/ /\ freq_multiplier_step.t = "int"
     /\ freq_multiplier_step.v \in 0..24
     /\ freq_multiplier = ScalingFactor(freq_multiplier_step.v)


\* The duration the quantizer is to give a note held for duration at unit u:
\* u/2 below half the unit, 1.5u above one and a half units, u itself between.
ClampedToUnit(duration, u) ==
  IF 2 * duration < u THEN u \div 2
  ELSE IF 2 * duration > 3 * u THEN (3 * u) \div 2
  ELSE u

\* The same with a duration inside the band passed through unchanged.
ClampedToBand(duration, u) ==
  IF 2 * duration < u THEN u \div 2
  ELSE IF 2 * duration > 3 * u THEN (3 * u) \div 2
  ELSE duration

HeldFor(note) == note.end_time[1] - note.start_time

\* C6: a recording that is saved gives each note, held for d at quantization
\* unit u, the duration u/2 if d < u/2, 1.5u if d > 1.5u, and u otherwise
\* (0.6 s at the quarter unit 0.5 s is saved as 0.5 s).
C6_QuantizedToHalfUnitOrOneAndAHalf ==
  [][(is_recording /\ ~is_recording' /\ saved_tune' # saved_tune)
       => (/\ Len(saved_tune'[1].notes) = Len(recorded_notes)
           /\ \A k \in 1..Len(recorded_notes) :
                saved_tune'[1].notes[k].duration =
                  ClampedToUnit(HeldFor(recorded_notes[k]), quantization))]_vars

\* C6 as the specification words it: a duration between u/2 and 1.5u is saved
\* unchanged (0.6 s stays 0.6 s).
C6_QuantizedDurationKeptInBand ==
  [][(is_recording /\ ~is_recording' /\ saved_tune' # saved_tune)
       => (/\ Len(saved_tune'[1].notes) = Len(recorded_notes)
           /\ \A k \in 1..Len(recorded_notes) :
                saved_tune'[1].notes[k].duration =
                  ClampedToBand(HeldFor(recorded_notes[k]), quantization))]_vars

\* A recording has been saved that holds a note outside the band, clamped to
\* its edge, and a note inside the band that is not the unit itself, which
\* was saved as the unit.
C6_SavedNoteInsideBand ==
  /\ ~is_recording
  /\ saved_tune # << >>
  /\ Len(saved_tune[1].notes) = Len(recorded_notes)
  /\ \E k \in 1..Len(recorded_notes) :
       /\ 2 * HeldFor(recorded_notes[k]) > quantization
       /\ 2 * HeldFor(recorded_notes[k]) < 3 * quantization
       /\ HeldFor(recorded_notes[k]) # quantization
       /\ saved_tune[1].notes[k].duration = quantization
  /\ \E k \in 1..Len(recorded_notes) :
       /\ (2 * HeldFor(recorded_notes[k]) < quantization
           \/ 2 * HeldFor(recorded_notes[k]) > 3 * quantization)
       /\ saved_tune[1].notes[k].duration # quantization

\* The 0-based indices k at which the pair (buffer[k], buffer[k+1]) qualifies
\* for the edge: rising from below the threshold to at or above it, falling
\* from above it to at or below it.
Qualifying(buffer, threshold, edge) ==
  { k \in 0..(Len(buffer) - 2) :
      IF edge = "Rising"
      THEN buffer[k + 1] * 100 < threshold * Unit /\ buffer[k + 2] * 100 >= threshold * Unit
      ELSE buffer[k + 1] * 100 > threshold * Unit /\ buffer[k + 2] * 100 <= threshold * Unit }

\* C7: detectTrigger returns k+1 for the largest qualifying index k and none
\* exactly when no index qualifies, histories of length 0 and 1 included.
C7_TriggerIsLastCrossing ==
  trigger_index # << >> =>
    LET qualifying == Qualifying(trigger_buffer, trigger_threshold, trigger_edge)
    IN IF qualifying = {}
       THEN trigger_index[1] = << >>
       ELSE /\ trigger_index[1] # << >>
            /\ trigger_index[1][1] - 1 \in qualifying
            /\ \A k \in qualifying : k + 1 <= trigger_index[1][1]

\* Detection has run on a history with more than one qualifying index and
\* returned an index past the first of them.
C7_SeveralCrossings ==
  /\ trigger_index # << >>
  /\ trigger_index[1] # << >>
  /\ Cardinality(Qualifying(trigger_buffer, trigger_threshold, trigger_edge)) > 1
  /\ \E k \in Qualifying(trigger_buffer, trigger_threshold, trigger_edge) :
       k + 1 < trigger_index[1][1]

\* C8: a callback whose snapshot has multiplier 0 and DC offset 0 writes 0 to
\* every output sample and leaves both histories empty when it returns.
C8_SilentCallbackClearsHistories ==
  [][(cb.busy /\ cb.freq_multiplier = 0 /\ cb.dc = 0 /\ AudioExit)
       => (/\ Len(outdata') = cb.frames
           /\ \A k \in 1..Len(outdata') : outdata'[k] = 0
           /\ cumulative_buffer' = << >>
           /\ trigger_buffer' = << >>)]_vars

\* A silent callback has returned while the oscillators have amplitude: its
\* buffer is all zeros and the histories are empty although the phases a
\* sounding callback left are still there.
C8_SilentAfterSound ==
  /\ ~cb.busy
  /\ outdata # << >>
  /\ \A k \in 1..Len(outdata) : outdata[k] = 0
  /\ cumulative_buffer = << >>
  /\ trigger_buffer = << >>
  /\ freq_multiplier = 0
  /\ dc_value = 0
  /\ \A i \in 1..num_oscillators : amp_values[i] = Unit
  /\ \E i \in 1..num_oscillators : phases[i] # 0

\* C9: a callback that is not silent writes no sample of magnitude above 1
\* to the output buffer, and the histories it appended to hold none.
C9_OutputWithinUnit ==
  [][(cb.busy /\ ~(cb.freq_multiplier = 0 /\ cb.dc = 0) /\ AudioExit)
       => (/\ Len(outdata') = cb.frames
           /\ \A k \in 1..Len(outdata') : Abs(outdata'[k]) <= Unit
           /\ \A k \in 1..Len(cumulative_buffer') : Abs(cumulative_buffer'[k]) <= Unit
           /\ \A k \in 1..Len(trigger_buffer') : Abs(trigger_buffer'[k]) <= Unit)]_vars

\* A sounding callback has returned a buffer at full scale while the
\* amplitudes of the oscillators add up to more than 1.
C9_FullScaleOutput ==
  /\ ~cb.busy
  /\ outdata # << >>
  /\ freq_multiplier # 0
  /\ \A i \in 1..num_oscillators : amp_values[i] = Unit
  /\ volume = Unit
  /\ \E k \in 1..Len(outdata) : Abs(outdata[k]) = Unit
  /\ \E k \in 1..Len(cumulative_buffer) : cumulative_buffer[k] # 0

\* The 1-based positions of the notes of tune whose name is one of the 25 keys.
ValidPositions(tune) == { k \in 1..Len(tune) : tune[k].name \in KeyNames }

FirstValidPosition(tune) ==
  CHOOSE k \in ValidPositions(tune) : \A other \in ValidPositions(tune) : k <= other

C12_PlayRejected ==
  [][((current_tune = << >> \/ is_playing_tune) /\ PlayTune)
       => UNCHANGED << current_note_index, is_playing_tune, is_paused,
                       freq_multiplier, phases, timers >>]_vars

\* A tune is Paused past its first note with a timer pending: the state a
\* rejected Play leaves as it found it.
C12_PausedMidTune ==
  /\ is_playing_tune
  /\ is_paused
  /\ current_note_index > 0
  /\ timers # << >>
  /\ freq_multiplier # 0

\* C13: a Play on a tune that starts with a name outside the 25 keys moves
\* the index past every such name without scheduling a timer for it; the only
\* timer added is that of the first valid note, and a tune of invalid names
\* only ends Stopped at the end of the tune with the multiplier, the phases
\* and the timers as they were.
C13_InvalidNamesSkipped ==
  [][(/\ ~is_playing_tune
      /\ current_tune # << >>
      /\ current_tune[1].name \notin KeyNames
      /\ PlayTune)
       => IF ValidPositions(current_tune) = {}
          THEN /\ ~is_playing_tune'
               /\ current_note_index' = Len(current_tune)
               /\ UNCHANGED << freq_multiplier, freq_multiplier_step, currentKey,
                               phases, timers >>
          ELSE /\ current_note_index' = FirstValidPosition(current_tune) - 1
               /\ current_note_index' > 0
               /\ Len(timers') = Len(timers) + 1
               /\ timers'[Len(timers')].interval =
                    TimerInterval(current_tune[FirstValidPosition(current_tune)].duration)]_vars

\* A tune of invalid names only has been played while a key was held: the
\* playback is over, nothing was dispatched and the key still sounds.
C13_OnlyInvalidNamesPlayed ==
  /\ ~is_playing_tune
  /\ current_tune # << >>
  /\ ValidPositions(current_tune) = {}
  /\ current_note_index = Len(current_tune)
  /\ run.clean
  /\ run.done
  /\ run.trace = << >>
  /\ freq_multiplier # 0
  /\ held # {}

\* C14: the paused flag is set only while the playing flag is set.
C14_PausedOnlyWhilePlaying ==
  is_paused => is_playing_tune

\* ---------------------------------------------------------------------------
\* The waveform display: updatePlot, run by plotTimer every
\* PLOT_UPDATE_INTERVAL milliseconds.
\* ---------------------------------------------------------------------------

PLOT_UPDATE_INTERVAL == 50

\* The display ticks a behaviour is followed for.
MaxPlotTicks == 3

\* int(duration * self.SAMPLE_RATE), the duration in units of 1e-5 s.
PlotSamples(duration) == (duration * (SAMPLE_RATE \div 100)) \div 1000

\* Python's s[-n:] for n >= 0: s[-0:] is the whole of s.
LastSamples(s, n) ==
  IF n = 0 \/ n >= Len(s) THEN s ELSE SubSeq(s, Len(s) - n + 1, Len(s))

\* Python's s[i:] for 0 <= i.
SamplesFrom(s, i) == SubSeq(s, i + 1, Len(s))

\* The holdoff test of line 752 with a strict comparison.
HoldoffElapsedStrictly(last, now, holdoff) ==
  \/ last = << >>
  \/ (now - last[1]) * 10 > holdoff

\* (current_time - self.last_trigger_time) >= holdoff_time, line 752: the
\* times in milliseconds, the holdoff in tenths of a millisecond, << >>
\* the initial -np.inf.
HoldoffElapsed(last, now, holdoff) ==
  \/ last = << >>
  \/ (now - last[1]) * 10 >= holdoff

\* updatePlot, lines 733-783, run when the wall clock reads now.
UpdatePlotAt(now) ==
  LET buffer == trigger_buffer
      duration == controls.timeScaleSpinBox
      holdoff_time == controls.triggerHoldoffSpinBox
      n == PlotSamples(duration)
      found == detectTrigger(buffer, trigger_threshold, trigger_edge)
      accepted == found # << >> /\ HoldoffElapsed(last_trigger_time, now, holdoff_time)
      aligned_buffer == IF accepted
                        THEN SamplesFrom(buffer, found[1])
                        ELSE LastSamples(buffer, n)
      waveform == IF Len(aligned_buffer) > n
                  THEN LastSamples(aligned_buffer, n)
                  ELSE aligned_buffer
  IN /\ plot_clock' = now
     /\ IF Len(buffer) = 0
        THEN UNCHANGED << trigger_index, last_trigger_time, plot >>
        ELSE /\ trigger_index' = << found >>
             /\ last_trigger_time' = IF accepted THEN << now >> ELSE last_trigger_time
             /\ plot' = [shown |-> TRUE, triggered |-> accepted, waveform |-> waveform]
     /\ UNCHANGED << schedVars, noteVars, held, paramVars, widgetVars, audioVars,
                     recVars, fileVars, deviceVars, lockVars >>

\* A timeout of plotTimer: the tick comes one or two intervals after the
\* one before it.
UpdatePlot ==
  \E late \in 1..2 :
    /\ plot_clock + late * PLOT_UPDATE_INTERVAL <= MaxPlotTicks * PLOT_UPDATE_INTERVAL
    /\ UpdatePlotAt(plot_clock + late * PLOT_UPDATE_INTERVAL)

\* The user edits the Time Scale spin box; valueChanged runs updateParameters
\* (line 319) unless the signals of the box are blocked.
SetTimeScale(value) ==
  /\ TimeScaleMin <= value /\ value <= TimeScaleMax
  /\ controls' = [controls EXCEPT !.timeScaleSpinBox = value]
  /\ IF "others" \in signalsBlocked
     THEN UNCHANGED << amp_values, freq_values, waveform_types, dc_value,
                       trigger_threshold, trigger_edge >>
     ELSE UpdateParameters(controls')
  /\ UNCHANGED << schedVars, noteVars, held, volume, key_shift_semitones,
                  signalsBlocked, audioVars, displayVars, recVars, fileVars,
                  deviceVars, lockVars >>

\* The user edits the Trigger Holdoff spin box, which is connected to no slot.
SetTriggerHoldoff(value) ==
  /\ 0 <= value /\ value <= HoldoffMax
  /\ controls' = [controls EXCEPT !.triggerHoldoffSpinBox = value]
  /\ UNCHANGED << schedVars, noteVars, held, paramVars, signalsBlocked,
                  audioVars, displayVars, recVars, fileVars,
                  deviceVars, lockVars >>

\* The display settings and histories the plot is exercised with: time scales
\* of 0, 1, 2 and 5 samples, holdoffs of 0, 50 and 100 ms.
PlotTimeScales == { TimeScaleMin, 3, 5, 12 }
PlotHoldoffs == { 0, 10 * PLOT_UPDATE_INTERVAL, TRIGGER_HOLDOFF_DEFAULT }
PlotHistorySamples == { -Unit, Unit }

TimeScaleEdited == \E value \in PlotTimeScales : SetTimeScale(value)
TriggerHoldoffEdited == \E value \in PlotHoldoffs : SetTriggerHoldoff(value)

InitPlot ==
  /\ InitScheduler
  /\ InitNote
  /\ \E edge \in TriggerEdges :
       InitParameters([InitControls EXCEPT !.triggerEdgeComboBox = edge])
  /\ volume = Unit
  /\ InitStream
  /\ trigger_buffer \in SeqsUpTo(PlotHistorySamples, TriggerMaxLen)
  /\ InitDisplay
  /\ InitFiles
  /\ InitDevice
  /\ InitLock
  /\ InitRecording

NextPlot ==
  \/ UpdatePlot
  \/ TimeScaleEdited
  \/ TriggerHoldoffEdited
  \/ AudioCallbackEntry
  \/ AudioExit

SpecPlot == InitPlot /\ [][NextPlot]_vars

\* C15: a display tick that finds a qualifying crossing accepts it exactly
\* when no trigger was accepted before or the time since the last accepted
\* one is at least the holdoff read at the tick; the last-acceptance time
\* becomes the time of the tick on acceptance and is left alone otherwise.
C15_AcceptedIffHoldoffElapsed ==
  [][(UpdatePlot /\ trigger_buffer # << >>)
       => LET found == Qualifying(trigger_buffer, trigger_threshold, trigger_edge) # {}
              elapsed == \/ last_trigger_time = << >>
                         \/ (plot_clock' - last_trigger_time[1]) * 10
                              >= controls.triggerHoldoffSpinBox
          IN /\ plot'.triggered <=> (found /\ elapsed)
             /\ last_trigger_time' = IF plot'.triggered
                                     THEN << plot_clock' >>
                                     ELSE last_trigger_time]_vars

\* A trigger was accepted exactly one holdoff of 100 ms after the one before.
C15_AcceptedAtHoldoff ==
  /\ plot.shown
  /\ plot.triggered
  /\ controls.triggerHoldoffSpinBox = TRIGGER_HOLDOFF_DEFAULT
  /\ last_trigger_time = << plot_clock >>
  /\ plot_clock = 3 * PLOT_UPDATE_INTERVAL

\* C16: when a display tick accepts a trigger at index t of the history, the
\* first sample of the waveform it draws is the history sample at index t.
C16_WaveformStartsAtTrigger ==
  [][(UpdatePlot /\ plot'.triggered)
       => plot'.waveform[1] = trigger_buffer[trigger_index'[1][1] + 1]]_vars

\* C17: every waveform a display tick draws has exactly
\* int(duration * sampleRate) samples.
C17_WaveformHasPlotSamples ==
  [][(UpdatePlot /\ trigger_buffer # << >>)
       => Len(plot'.waveform) = PlotSamples(controls.timeScaleSpinBox)]_vars

\* ---------------------------------------------------------------------------
\* Recording sessions: the keyboard and the two recording buttons while
\* time.time() advances.
\* ---------------------------------------------------------------------------

\* The readings of time.time() a behaviour is followed for.
MaxClock == 3

\* time.time() moves on between two handlers.
ClockTick ==
  /\ clock < MaxClock
  /\ clock' = clock + 1
  /\ UNCHANGED << schedVars, noteVars, held, paramVars, widgetVars, audioVars,
                  displayVars, is_recording, recording_start_time,
                  recorded_notes, current_recording_note, quantization,
                  saved_tune, fileVars, deviceVars, lockVars >>

NextRecord ==
  \/ StartRecording
  \/ RecordingStop
  \/ KeyPressed
  \/ KeyReleased
  \/ ClockTick

SpecRecord == Init /\ [][NextRecord]_vars

\* C18: every note of the recorded sequence has a start and an end offset
\* with 0 <= start <= end.
C18_OffsetsOrdered ==
  \A k \in 1..Len(recorded_notes) :
    /\ recorded_notes[k].end_time # << >>
    /\ 0 <= recorded_notes[k].start_time
    /\ recorded_notes[k].start_time <= recorded_notes[k].end_time[1]

\* C19: while Recording, the release of a key that is not the key of the
\* open note appends nothing and leaves the open note as it is.
C19_OtherKeyReleaseIgnored ==
  [][\A key \in GestureKeys :
       (/\ is_recording
        /\ OnKeyReleased(key)
        /\ \/ current_recording_note = << >>
           \/ current_recording_note[1].name # key)
         => UNCHANGED << recorded_notes, current_recording_note >>]_vars

\* C20: Start Recording leaves the recorder Recording with an empty session
\* and no open note; Stop Recording leaves it Idle; a key gesture made while
\* not Recording leaves the recorded sequence as it is.
C20_SessionStartsEmpty ==
  [][/\ StartRecording
          => /\ is_recording'
             /\ recorded_notes' = << >>
             /\ current_recording_note' = << >>
     /\ RecordingStop => ~is_recording'
     /\ (~is_recording /\ (KeyPressed \/ KeyReleased))
          => UNCHANGED recorded_notes]_vars

\* ---------------------------------------------------------------------------
\* Recording beside the tune scheduler: a tune is loaded and played while
\* sessions are started and stopped and one key is pressed and released.
\* ---------------------------------------------------------------------------

NextSession ==
  \/ TuneLoad
  \/ PlayTune
  \/ TimerFire
  \/ StartRecording
  \/ RecordingStop
  \/ AudioKeyPressed
  \/ AudioKeyReleased

SpecSession == Init /\ [][NextSession]_vars

\* C21: Stop Recording with no captured note leaves the recorder Idle, writes
\* no tune file and leaves the loaded tune, the scheduler and the active note
\* as they were.
C21_EmptySessionSavesNothing ==
  [][(RecordingStop /\ recorded_notes = << >>)
       => /\ ~is_recording'
          /\ UNCHANGED << saved_tune, recorded_notes, current_tune,
                          current_note_index, is_playing_tune, is_paused,
                          pauseResumeEnabled, timers, noteVars >>]_vars

\* A session that captured nothing was stopped while a loaded tune was being
\* played: the tune goes on and no file was ever written.
C21_EmptySessionStopped ==
  /\ ~is_recording
  /\ recording_start_time # << >>
  /\ recorded_notes = << >>
  /\ saved_tune = << >>
  /\ is_playing_tune
  /\ timers # << >>

\* ---------------------------------------------------------------------------
\* Settings files: the Save and Load dialogs beside the widgets the
\* performer edits.
\* ---------------------------------------------------------------------------

\* updateVolume, lines 866-875, run by valueChanged of the volume slider
\* (line 402) unless its signals are blocked.
UpdateVolume(value) ==
  /\ value # controls.volumeSlider
  /\ controls' = [controls EXCEPT !.volumeSlider = value]
  /\ volume' = IF "others" \in signalsBlocked THEN volume ELSE (value * Unit) \div 100
  /\ UNCHANGED << schedVars, noteVars, held, amp_values, freq_values,
                  waveform_types, dc_value, trigger_threshold, trigger_edge,
                  key_shift_semitones, signalsBlocked, audioVars, displayVars,
                  recVars, fileVars, deviceVars, lockVars >>

\* The performer edits the amplitude of oscillator i; valueChanged runs
\* updateParameters (line 277) unless the signals of the row are blocked.
SetAmplitude(i, value) ==
  /\ value # controls.amplitudeControls[i]
  /\ controls' = [controls EXCEPT !.amplitudeControls[i] = value]
  /\ IF "oscillators" \in signalsBlocked
     THEN UNCHANGED << amp_values, freq_values, waveform_types, dc_value,
                       trigger_threshold, trigger_edge >>
     ELSE UpdateParameters(controls')
  /\ UNCHANGED << schedVars, noteVars, held, volume, key_shift_semitones,
                  signalsBlocked, audioVars, displayVars, recVars, fileVars,
                  deviceVars, lockVars >>

\* saveAllSettings, lines 877-903, when a file name was chosen: the file
\* holds the engine attributes, and the two spin boxes read at 890 and 893.
SaveAllSettings ==
  /\ saved_settings' =
       << [ keys |-> RequiredKeys,
            amplitudes |-> [i \in 1..num_oscillators |-> JNum(amp_values[i])],
            frequencies |-> [i \in 1..num_oscillators |-> JNum(freq_values[i])],
            waveforms |-> waveform_types,
            dc_offset |-> JNum(dc_value),
            time_scale |-> JNum(controls.timeScaleSpinBox),
            trigger_threshold |-> JNum(trigger_threshold),
            trigger_edge |-> trigger_edge,
            trigger_holdoff |-> JNum(controls.triggerHoldoffSpinBox),
            volume |-> JNum(volume),
            frequency_multiplier_step |-> freq_multiplier_step,
            key_shift_semitones |-> JInt(key_shift_semitones) ] >>
  /\ UNCHANGED << schedVars, noteVars, held, paramVars, widgetVars, audioVars,
                  displayVars, recVars, load_failed, deviceVars, lockVars >>

\* loadAllSettings on the file saveAllSettings wrote.
SavedSettingsLoad ==
  /\ saved_settings # << >>
  /\ LoadAllSettings(saved_settings[1])

\* The values the widgets are edited to.
SettingsVolumes == { 50, VolumeSliderDefault }
SettingsAmplitudes == { 0, Unit }

VolumeChanged == \E value \in SettingsVolumes : UpdateVolume(value)
AmplitudeEdited ==
  \E i \in 1..num_oscillators, value \in SettingsAmplitudes : SetAmplitude(i, value)

\* Loads of the files of the two Load dialogs between edits of the widgets.
NextSettings ==
  \/ AnySettingsLoad
  \/ OscillatorLoad
  \/ VolumeChanged
  \/ AmplitudeEdited

SpecSettings == Init /\ [][NextSettings]_vars

\* A settings file is saved and loaded again between edits of the widgets
\* and gestures on one key.
NextRoundTrip ==
  \/ SaveAllSettings
  \/ SavedSettingsLoad
  \/ VolumeChanged
  \/ AmplitudeEdited
  \/ AudioKeyPressed
  \/ AudioKeyReleased

SpecRoundTrip == Init /\ [][NextRoundTrip]_vars

\* A file that lacks one of the required keys or has a list that is not of
\* one entry per oscillator.
Lacking(file, required) ==
  \/ \E key \in required : key \notin file.keys
  \/ Len(file.amplitudes) # num_oscillators
  \/ Len(file.frequencies) # num_oscillators
  \/ Len(file.waveforms) # num_oscillators

\* C22: a load of a full or oscillator-only settings file that lacks a
\* required key, or whose amplitudes, frequencies or waveforms list is not of
\* length num_oscillators, reports an error and changes neither the engine
\* parameters, the active note nor any widget.
C22_LackingFileRejected ==
  [][/\ \A file \in SettingsFiles :
          (Lacking(file, RequiredKeys) /\ LoadAllSettings(file))
            => (load_failed' /\ UNCHANGED << paramVars, noteVars, widgetVars >>)
     /\ \A file \in OscillatorFiles :
          (Lacking(file, OscillatorKeys) /\ LoadOscillatorSettings(file))
            => (load_failed' /\ UNCHANGED << paramVars, noteVars, widgetVars >>)]_vars

\* A load has been refused after an earlier one went through: the widgets
\* and the engine still hold the values of the good file and every signal is
\* delivered.
C22_RefusedAfterGoodLoad ==
  /\ load_failed
  /\ signalsBlocked = {}
  /\ controls.dcSpinBox = BaseFile.dc_offset.v
  /\ dc_value = BaseFile.dc_offset.v
  /\ freq_multiplier_step = BaseFile.frequency_multiplier_step

\* C23: a settings load, full or oscillator-only, that reports an error
\* leaves the engine parameters, the active note, the widgets and the
\* delivery of their signals exactly as they were.
C23_FailedLoadChangesNothing ==
  [][((AnySettingsLoad \/ OscillatorLoad) /\ load_failed')
       => UNCHANGED << paramVars, noteVars, widgetVars >>]_vars

\* C24: a load of the file saveAllSettings wrote restores every saved field
\* in the engine state: amplitudes, frequencies, waveforms, DC offset, time
\* scale, trigger threshold, edge and holdoff, volume, multiplier step and
\* key shift.
C24_SavedSettingsRestored ==
  [][SavedSettingsLoad
       => LET saved == saved_settings[1]
          IN /\ \A i \in 1..num_oscillators :
                  /\ amp_values'[i] = saved.amplitudes[i].v
                  /\ freq_values'[i] = saved.frequencies[i].v
                  /\ waveform_types'[i] = saved.waveforms[i]
             /\ dc_value' = saved.dc_offset.v
             /\ controls'.timeScaleSpinBox = saved.time_scale.v
             /\ trigger_threshold' = saved.trigger_threshold.v
             /\ trigger_edge' = saved.trigger_edge
             /\ controls'.triggerHoldoffSpinBox = saved.trigger_holdoff.v
             /\ volume' = saved.volume.v
             /\ freq_multiplier_step' = saved.frequency_multiplier_step
             /\ key_shift_semitones' = saved.key_shift_semitones.v]_vars

\* C25: a load of a tune file whose notes list is empty or missing reports an
\* error and leaves the loaded tune, the note index and the playing and
\* paused flags as they were.
C25_EmptyTuneRejected ==
  [][\A file \in TuneFiles :
       ((~file.has_notes \/ file.notes = << >>) /\ LoadTune(file))
         => /\ load_failed'
            /\ UNCHANGED << current_tune, current_note_index, is_playing_tune,
                            is_paused >>]_vars

\* A tune file without notes was refused while a tune was Paused past its
\* first note; no settings file has been loaded.
C25_RefusedWhilePaused ==
  /\ load_failed
  /\ controls = InitControls
  /\ is_playing_tune
  /\ is_paused
  /\ current_note_index > 0

\* ---------------------------------------------------------------------------
\* The output device: changeDevice and initAudio beside the audio thread.
\* ---------------------------------------------------------------------------

\* What sd.OutputStream(...) and stream.start() may do at lines 609-613.
StreamOutcomes == { "started", "open_failed", "start_failed" }

\* initAudio, lines 600-615, for self.device = d with the stream attribute as
\* the caller left it.
InitAudioOn(d, old, outcome) ==
  /\ phases' = Zeros
  /\ stream' = CASE outcome = "started" -> << [device |-> d, active |-> TRUE] >>
                 [] outcome = "start_failed" -> << [device |-> d, active |-> FALSE] >>
                 [] outcome = "open_failed" -> old

\* changeDevice, lines 578-598, for the entry index of the combo box;
\* stream.stop() returns once the callback in flight has returned.
ChangeDevice(index, outcome) ==
  LET selected_device == OutputDevices[index]
  IN /\ ~cb.busy
     /\ IF selected_device # device
        THEN /\ device' = selected_device
             /\ InitAudioOn(selected_device,
                            IF stream # << >>
                            THEN << [stream[1] EXCEPT !.active = FALSE] >>
                            ELSE stream,
                            outcome)
        ELSE UNCHANGED << device, stream, phases >>
     /\ UNCHANGED << schedVars, freq_multiplier_step, freq_multiplier, currentKey,
                     held, paramVars, widgetVars, audioVars, displayVars, recVars,
                     fileVars, closed, lockVars >>

DeviceChanged ==
  \E index \in 1..Len(OutputDevices), outcome \in StreamOutcomes :
    ChangeDevice(index, outcome)

NextDevice ==
  \/ DeviceChanged
  \/ AudioCallbackEntry
  \/ AudioExit
  \/ AudioKeyPressed
  \/ AudioKeyReleased

SpecDevice == InitAudio /\ [][NextDevice]_vars

\* C26: when a switch to another output device fails because no stream can
\* be opened on it, the stream that was open before is still self.stream and
\* is still started.
C26_FailedSwitchKeepsStream ==
  [][\A index \in 1..Len(OutputDevices) :
       (/\ stream # << >>
        /\ stream[1].active
        /\ OutputDevices[index] # device
        /\ ChangeDevice(index, "open_failed"))
         => stream' = stream]_vars

\* C27: Pause/Resume pressed while no tune is playing, and Stop pressed while
\* no tune is playing, change neither the scheduler flags, the note index, the
\* multiplier, the current key, the phases nor the pending timers.
C27_NothingToPauseOrStop ==
  [][(~is_playing_tune /\ (PauseResumeTune \/ StopTune))
       => UNCHANGED << is_playing_tune, is_paused, current_note_index,
                       freq_multiplier_step, freq_multiplier, currentKey,
                       phases, timers >>]_vars

\* No tune is playing, the Pause button is still enabled, a timer of the
\* playback a load interrupted is pending and the performer holds a key.
C27_KeyHeldWhileStopped ==
  /\ ~is_playing_tune
  /\ pauseResumeEnabled
  /\ timers # << >>
  /\ held # {}
  /\ freq_multiplier # 0

\* C28: at most one note-end timer is pending at any instant.
C28_OneTimerPending ==
  Len(timers) <= 1

\* C29: from the return of a Stop that ended a playback until the next Play,
\* the note index stays 0 and no note-end callback changes the multiplier,
\* the current key or the phases.
C29_NoCallbackAfterStop ==
  [][(run.stopped /\ ~is_playing_tune)
       => /\ current_note_index' = 0 \/ PlayTune
          /\ TimerFire => UNCHANGED << freq_multiplier_step, freq_multiplier,
                                       currentKey, phases >>]_vars

\* C30: a note starts from phase 0 under every interleaving. A callback is
\* in flight whose snapshot holds phases that are not 0, and a gesture-down
\* made since that snapshot has set the multiplier of the new note and reset
\* the phases: the phase commit of that callback leaves the phases at 0, so
\* that the first callback whose snapshot has the new note reads 0 for every
\* oscillator.
C30_NoteStartsAtPhaseZero ==
  [][(/\ cb.busy
      /\ \E i \in 1..num_oscillators : cb.phases[i] # 0
      /\ freq_multiplier # 0
      /\ phases = Zeros
      /\ AudioExit)
       => phases' = Zeros]_vars

\* ---------------------------------------------------------------------------
\* The shared lock. self.lock is one threading.Lock (line 46): not re-entrant,
\* taken with `with self.lock:` and so released on every way out of the block.
\* Two threads use it: the Qt main thread, which runs every GUI handler, the
\* display tick and the note-end callbacks, and the PortAudio thread, which
\* runs audioCallback. Here each operation is the sequence of its lock
\* acquisitions, its reads and writes of self.* fields, and its computations,
\* in source order; the values themselves are those of the actions above.

Acquires == [kind |-> "acquire", fields |-> { }, raises |-> FALSE]
Releases == [kind |-> "release", fields |-> { }, raises |-> FALSE]
Reads(F) == [kind |-> "read", fields |-> F, raises |-> FALSE]
Writes(F) == [kind |-> "write", fields |-> F, raises |-> FALSE]
Computes == [kind |-> "compute", fields |-> { }, raises |-> FALSE]
\* A step that may raise into the handler's `except Exception`.
Raising(step) == [step EXCEPT !.raises = TRUE]

\* The state both threads use.
SharedState ==
  { "amp_values", "freq_values", "waveform_types", "dc_value", "volume",
    "freq_multiplier", "freq_multiplier_step", "key_shift_factor", "phases",
    "cumulative_buffer", "trigger_buffer" }

NoteFields == { "freq_multiplier_step", "freq_multiplier", "currentKey", "phases" }
ParameterFields ==
  { "amp_values", "freq_values", "waveform_types", "dc_value",
    "trigger_threshold", "trigger_edge" }

\* audioCallback with one acquisition held from the snapshot to the commit.
audioCallbackHoldingLock ==
  << Acquires,
     Reads({ "amp_values", "freq_values", "phases", "waveform_types", "dc_value",
             "trigger_threshold", "trigger_edge", "volume", "freq_multiplier",
             "key_shift_factor" }),
     Computes,
     Writes({ "phases", "cumulative_buffer", "trigger_buffer" }),
     Releases >>

\* audioCallback: the snapshot under the lock (639-650), the generation with
\* no lock (652-691), the commit under the lock (694-705).
audioCallbackSteps ==
  << Acquires,
     Reads({ "amp_values", "freq_values", "phases", "waveform_types", "dc_value",
             "trigger_threshold", "trigger_edge", "volume", "freq_multiplier",
             "key_shift_factor" }),
     Releases,
     Computes,
     Acquires,
     Writes({ "phases", "cumulative_buffer", "trigger_buffer" }),
     Releases >>

\* updatePlot detecting and drawing before it lets go of the lock.
updatePlotComputingUnderLock ==
  << Acquires,
     Reads({ "trigger_buffer", "trigger_threshold", "trigger_edge" }),
     Computes,
     Releases >>

\* updatePlot: the copy under the lock (735-740), then detectTrigger, the
\* holdoff test, the window and setData (742-783).
updatePlotSteps ==
  << Acquires,
     Reads({ "trigger_buffer", "trigger_threshold", "trigger_edge" }),
     Releases,
     Computes >>

\* updateParameters, lines 790-798.
updateParametersSteps == << Acquires, Writes(ParameterFields), Releases >>

\* updateTransposition, lines 149-151.
updateTranspositionSteps ==
  << Acquires, Writes({ "key_shift_semitones", "key_shift_factor" }), Releases >>

\* updateVolume, lines 873-875.
updateVolumeSteps == << Acquires, Writes({ "volume" }), Releases, Computes >>

\* onKeyPressed (810-815), onKeyReleased (844-849) and stopTune (1249-1254)
\* set the active note under the lock and restyle the keys after it.
noteSteps == << Acquires, Writes(NoteFields), Releases, Computes >>

\* playNextNote on a valid note: lines 1167-1172 under the lock, then the
\* key styles, getTransposedKey (1209) and the timer.
playNextNoteSteps ==
  << Acquires, Writes(NoteFields), Releases, Reads({ "key_shift_semitones" }),
     Computes >>

\* endCurrentNote (1219-1224), then playNextNote when not paused (1236-1237).
endCurrentNoteSteps == noteSteps \o playNextNoteSteps

\* initAudio resets the phases under the lock (605-606) and opens the stream.
initAudioSteps == << Acquires, Writes({ "phases" }), Releases, Computes >>

\* saveAllSettings builds the dictionary of lines 885-897 with no lock.
saveAllSettingsSteps ==
  << Reads({ "amp_values", "freq_values", "waveform_types", "dc_value",
             "trigger_threshold", "trigger_edge", "volume",
             "freq_multiplier_step", "key_shift_semitones" }),
     Computes >>

\* loadAllSettings calling updateParameters inside its `with self.lock`.
loadAllSettingsUpdatingUnderLock ==
  << Raising(Computes),
     Writes({ "freq_multiplier_step" }),
     Raising(Computes),
     Acquires,
     Raising(Writes({ "key_shift_semitones", "key_shift_factor" })) >>
  \o updateParametersSteps \o
  << Releases,
     Raising(Reads({ "freq_multiplier_step" })),
     Writes({ "freq_multiplier_step", "freq_multiplier", "currentKey" }),
     Computes >>

\* loadAllSettings after validation: the widgets (946-964), the step (966),
\* the key shift box (968), the transposition under the lock (971-973), the
\* active note (975-992), the unblocking (1004-1013) and updateParameters
\* (1016). The widget setters, the power of line 973 and the comparison of
\* line 975 raise on a value of the wrong type.
loadAllSettingsSteps ==
  << Raising(Computes),
     Writes({ "freq_multiplier_step" }),
     Raising(Computes),
     Acquires,
     Raising(Writes({ "key_shift_semitones", "key_shift_factor" })),
     Releases,
     Raising(Reads({ "freq_multiplier_step" })),
     Writes({ "freq_multiplier_step", "freq_multiplier", "currentKey" }),
     Computes >>
  \o updateParametersSteps

\* What the Qt main thread runs.
GuiOperations ==
  { "updatePlot", "updateParameters", "updateTransposition", "updateVolume",
    "onKeyPressed", "onKeyReleased", "stopTune", "playNextNote",
    "endCurrentNote", "initAudio", "saveAllSettings", "loadAllSettings" }

Operations(t) == IF t = "audio" THEN { "audioCallback" } ELSE GuiOperations

Steps(op) ==
  CASE op = "audioCallback" -> audioCallbackSteps
    [] op = "updatePlot" -> updatePlotSteps
    [] op = "updateParameters" -> updateParametersSteps
    [] op = "updateTransposition" -> updateTranspositionSteps
    [] op = "updateVolume" -> updateVolumeSteps
    [] op \in { "onKeyPressed", "onKeyReleased", "stopTune" } -> noteSteps
    [] op = "playNextNote" -> playNextNoteSteps
    [] op = "endCurrentNote" -> endCurrentNoteSteps
    [] op = "initAudio" -> initAudioSteps
    [] op = "saveAllSettings" -> saveAllSettingsSteps
    [] op = "loadAllSettings" -> loadAllSettingsSteps
    [] OTHER -> << >>

Done(t) == running[t].op # "None" /\ running[t].pc > Len(Steps(running[t].op))
\* The step thread t is about to take, Computes when it has none.
Pending(t) ==
  IF running[t].op # "None" /\ ~Done(t)
  THEN Steps(running[t].op)[running[t].pc]
  ELSE Computes
Busy(t) == running[t].op # "None" /\ ~Done(t)

\* The rest of the program's state, which the steps below leave alone.
dataVars == << schedVars, noteVars, held, paramVars, widgetVars, audioVars,
               displayVars, recVars, fileVars, deviceVars >>

\* Qt or PortAudio calls the operation.
Begin(t, op) ==
  /\ running[t].op = "None"
  /\ running' = [running EXCEPT ![t] = [op |-> op, pc |-> 1, acquired |-> 0]]
  /\ UNCHANGED << lock, access, dataVars >>

\* `with self.lock:` entered; a Lock that is held blocks whoever asks for it,
\* its holder included.
Acquire(t) ==
  /\ Busy(t)
  /\ Pending(t).kind = "acquire"
  /\ lock = "None"
  /\ lock' = t
  /\ running' = [running EXCEPT ![t].pc = @ + 1, ![t].acquired = @ + 1]
  /\ UNCHANGED << access, dataVars >>

\* The end of the `with` block.
Release(t) ==
  /\ Busy(t)
  /\ Pending(t).kind = "release"
  /\ lock' = IF lock = t THEN "None" ELSE lock
  /\ running' = [running EXCEPT ![t].pc = @ + 1]
  /\ UNCHANGED << access, dataVars >>

\* A read or a write of self.* fields, or a computation on local values.
Touch(t) ==
  /\ Busy(t)
  /\ Pending(t).kind \in { "read", "write", "compute" }
  /\ access' = IF Pending(t).kind = "compute"
               THEN access
               ELSE [thread |-> t, op |-> running[t].op, kind |-> Pending(t).kind,
                     fields |-> Pending(t).fields, held |-> lock = t]
  /\ running' = [running EXCEPT ![t].pc = @ + 1]
  /\ UNCHANGED << lock, dataVars >>

\* The step raises: a `with` block it is in releases the lock on the way out
\* and the handler's except clause reports the error.
Raise(t) ==
  /\ Busy(t)
  /\ Pending(t).raises
  /\ lock' = IF lock = t THEN "None" ELSE lock
  /\ running' = [running EXCEPT ![t].pc = Len(Steps(running[t].op)) + 1]
  /\ UNCHANGED << access, dataVars >>

\* The operation returns.
Finish(t) ==
  /\ Done(t)
  /\ running' = [running EXCEPT ![t] = Resting]
  /\ UNCHANGED << lock, access, dataVars >>

Called == \E t \in Threads : \E op \in Operations(t) : Begin(t, op)
Acquired == \E t \in Threads : Acquire(t)
Released == \E t \in Threads : Release(t)
Touched == \E t \in Threads : Touch(t)
Raised == \E t \in Threads : Raise(t)
Finished == \E t \in Threads : Finish(t)

NextLock ==
  \/ Called
  \/ Acquired
  \/ Released
  \/ Touched
  \/ Raised
  \/ Finished

SpecLock == Init /\ [][NextLock]_vars

\* C31: every read and every write of the state shared with the audio thread
\* is made by an operation that holds the lock at that moment.
C31_SharedStateUnderLock ==
  access.fields \cap SharedState # { } => access.held

\* C32: an audio callback takes the lock twice, once around its snapshot and
\* once around its commit, and does not hold it while it generates the block.
C32_CallbackLocksTwice ==
  running["audio"].op = "audioCallback" =>
    /\ Pending("audio").kind = "read" /\ Busy("audio") =>
         lock = "audio" /\ running["audio"].acquired = 1
    /\ Pending("audio").kind = "compute" /\ Busy("audio") => lock # "audio"
    /\ Pending("audio").kind = "write" =>
         lock = "audio" /\ running["audio"].acquired = 2
    /\ Done("audio") => lock # "audio" /\ running["audio"].acquired = 2

\* A callback has returned while the GUI thread was inside a handler.
C32_CallbackReturned ==
  /\ Done("audio")
  /\ running["audio"].acquired = 2
  /\ Busy("gui")

\* C33: a display tick holds the lock only for its copy of the trigger history
\* and the trigger settings; while it detects, selects and draws the lock is
\* not its own, so an audio callback asking for the lock is not kept waiting
\* by it.
C33_DisplayComputesUnlocked ==
  running["gui"].op = "updatePlot" =>
    /\ lock = "gui" => Busy("gui") /\ Pending("gui").kind \in { "read", "release" }
    /\ Busy("gui") /\ Pending("gui").kind = "compute" =>
         /\ lock # "gui"
         /\ access.thread = "gui" => access.held
         /\ Busy("audio") /\ Pending("audio").kind = "acquire" => ENABLED Acquire("audio")

\* The display is computing while a callback is at its commit acquisition.
C33_CallbackCommitsDuringDisplay ==
  /\ running["gui"].op = "updatePlot"
  /\ Busy("gui") /\ Pending("gui").kind = "compute"
  /\ Busy("audio") /\ Pending("audio").kind = "acquire"
  /\ running["audio"].acquired = 1

\* The scheduling the lock claims assume: a thread inside an operation keeps
\* running, and a thread asking for the lock gets it if the lock is free again
\* and again.
Proceed(t) == Release(t) \/ Touch(t) \/ Raise(t) \/ Finish(t)

FairLock ==
  /\ SpecLock
  /\ \A t \in Threads : WF_vars(Proceed(t)) /\ SF_vars(Acquire(t))

\* Thread t is at a `with self.lock:`.
Waiting(t) == Busy(t) /\ Pending(t).kind = "acquire"

\* C37: no operation asks for the lock while it holds it, and a thread that
\* asks for the lock gets it: neither the audio callback nor anything on the
\* GUI thread waits forever.
C37_NoEndlessWait ==
  /\ [](\A t \in Threads : Waiting(t) => lock # t)
  /\ \A t \in Threads : Waiting(t) ~> (lock = t)

\* The settings load is at updateParameters' acquisition, after its own
\* transposition block, while the audio callback holds the lock.
C37_LoadWaitsForCallback ==
  /\ running["gui"].op = "loadAllSettings"
  /\ running["gui"].acquired = 1
  /\ Waiting("gui")
  /\ lock = "audio"

\* s is the end of t.
SuffixOf(s, t) ==
  /\ Len(s) <= Len(t)
  /\ \A k \in 1..Len(s) : s[k] = t[Len(t) - Len(s) + k]

\* kept is what a history of the given capacity holds after `out` was
\* produced: the newest samples of before \o out, in order, as many as fit.
NewestKept(kept, before, out, capacity) ==
  /\ Len(kept) = Min(capacity, Len(before) + Len(out))
  /\ SuffixOf(kept, before \o out)

\* C34: the display history never holds more than its capacity and the
\* trigger history never more than twice that; the display history is the end
\* of the trigger history; and a sounding callback leaves in each the newest
\* samples in the order they were produced, the oldest dropped first.
C34_HistoriesHoldNewestSamples ==
  /\ [](/\ Len(cumulative_buffer) <= CumulativeMaxLen
        /\ Len(trigger_buffer) <= 2 * CumulativeMaxLen
        /\ SuffixOf(cumulative_buffer, trigger_buffer))
  /\ [][(cb.busy /\ ~(cb.freq_multiplier = 0 /\ cb.dc = 0) /\ AudioExit)
         => (/\ NewestKept(cumulative_buffer', cumulative_buffer, outdata',
                           CumulativeMaxLen)
             /\ NewestKept(trigger_buffer', trigger_buffer, outdata',
                           2 * CumulativeMaxLen))]_vars

\* Both histories are full, the trigger history is the longer one and its
\* samples are not all equal, and another sounding callback is about to
\* append to them.
C34_FullHistoriesExtended ==
  /\ Len(cumulative_buffer) = CumulativeMaxLen
  /\ Len(trigger_buffer) = 2 * CumulativeMaxLen
  /\ \E k \in 1..Len(trigger_buffer) : trigger_buffer[k] # trigger_buffer[1]
  /\ cb.busy
  /\ cb.freq_multiplier # 0

\* C38: whatever the performer does with Load, Play, Pause, Resume and Stop
\* and whenever the timers fire, the scheduler's index stays between 0 and the
\* number of notes of the loaded tune.
C38_IndexWithinTune ==
  /\ 0 <= current_note_index
  /\ current_note_index <= Len(current_tune)

\* ---------------------------------------------------------------------------
\* The scheduler alone, with the event loop delivering every timer that is
\* pending: a QTimer.singleShot callback that is due is run by Qt.

\* loadTune accepts any non-empty list of notes (1106-1108); the duration of a
\* note is whatever number the file gives.
PlaybackTuneFiles ==
  TuneFiles \cup
    { [has_notes |-> TRUE,
       notes |-> << [name |-> "C4", duration |-> 20],
                    [name |-> "E4", duration |-> -30] >>] }

PlaybackTuneLoad == \E file \in PlaybackTuneFiles : LoadTune(file)

NextPlayback ==
  \/ PlaybackTuneLoad
  \/ PlayTune
  \/ PauseResumeTune
  \/ TimerFire
  \/ StopTune

FairPlayback == Init /\ [][NextPlayback]_vars /\ WF_vars(TimerFire)

\* C35: a playback that is running and not paused does not stay so for ever:
\* the timers fire, the index moves on and the scheduler stops at the end of
\* the tune, unless the performer pauses it first.
C35_PlaybackEnds ==
  (is_playing_tune /\ ~is_paused) ~> (~is_playing_tune \/ is_paused)

\* ---------------------------------------------------------------------------
\* Closing the window.

\* closeEvent, lines 1317-1334: the stream is stopped and closed first (1325-
\* 1327), then the plot timer; self.tune_timer was never started, so the test
\* of line 1330 is false, and its stop() would reach no singleShot timer
\* anyway. The active note is not touched. stream.stop() returns once the
\* callback in flight has returned.
CloseEvent ==
  /\ ~closed
  /\ ~cb.busy
  /\ stream' = IF stream # << >>
               THEN << [stream[1] EXCEPT !.active = FALSE] >>
               ELSE stream
  /\ closed' = TRUE
  /\ UNCHANGED << schedVars, noteVars, held, paramVars, widgetVars, audioVars,
                  displayVars, recVars, fileVars, device, lockVars >>

\* What the performer does while the window is open.
WhileOpen ==
  /\ ~closed
  /\ \/ TuneLoad
     \/ PlayTune
     \/ PauseResumeTune
     \/ StopTune

\* Qt delivers a pending single-shot callback as long as the event loop of
\* main() runs, which it does until the close has been processed.
NextClose ==
  \/ WhileOpen
  \/ TimerFire
  \/ CloseEvent

SpecClose == Init /\ [][NextClose]_vars

\* C36: closing the engine leaves no note-end timer pending and the active
\* note silent, and no note-end callback runs once the stream is released.
C36_CloseCancelsScheduler ==
  [][/\ CloseEvent => (/\ timers' = << >>
                       /\ freq_multiplier' = 0
                       /\ freq_multiplier_step' = JNull)
     /\ closed => ~TimerFire]_vars

\* The recorded length of a note, end minus start.
RawDuration(note) == note.end_time[1] - note.start_time

\* C39: a Stop Recording that writes a tune writes one note for each recorded
\* note, in order and under the same name; every name is a key of KEY_ORDER
\* and every duration is above 0, so that loadTune takes the file and
\* playNextNote skips none of its notes.
C39_SavedTuneIsPlayable ==
  [][(StopRecording(TRUE) /\ recorded_notes # << >>)
       => (/\ saved_tune' # << >>
           /\ LET tune == saved_tune'[1]
              IN /\ Len(tune.notes) = Len(recorded_notes)
                 /\ \A k \in 1..Len(tune.notes) :
                      /\ tune.notes[k].name = recorded_notes[k].name
                      /\ tune.notes[k].name \in KeyNames
                      /\ tune.notes[k].duration > 0
                      /\ SkipInvalid(tune.notes, k - 1) = k - 1
                 /\ tune.has_notes
                 /\ tune.notes # << >>)]_vars

\* A tune was written from a session of several notes, one of them released
\* at the clock reading it was pressed at or recorded with a start after its
\* end.
C39_SavedShortNote ==
  /\ ~is_recording
  /\ saved_tune # << >>
  /\ Len(recorded_notes) > 1
  /\ Len(saved_tune[1].notes) = Len(recorded_notes)
  /\ \E k \in 1..Len(recorded_notes) : RawDuration(recorded_notes[k]) <= 0
  /\ \E k \in 1..Len(recorded_notes) : RawDuration(recorded_notes[k]) > 0

====
